---- MODULE Spec2Model ----
(***************************************************************************)
(* Resilience layer of the Nuclino MCP server: the token-bucket rate       *)
(* limiter with its three-state circuit breaker                            *)
(* (src/internal/ratelimit/ratelimit.go), the in-memory cache with TTL and *)
(* LRU eviction (package cache, src/unnamed/part_005) and the retry policy *)
(* (package errors, src/internal/monitoring/metrics.go).                   *)
(*                                                                         *)
(* Goroutines are the threads 1..NumThreads.  Every critical section of    *)
(* the code (the statements between a Lock/RLock and the matching unlock)  *)
(* is one atomic step; a method that takes several locks in turn is a      *)
(* sequence of steps, between which the other threads may run.             *)
(* Time is a discrete clock; one tick is the time in which the bucket      *)
(* refills one token (1/RPS seconds).                                      *)
(***************************************************************************)
EXTENDS Integers, Naturals, Sequences, FiniteSets, TLC

\* ---------------------------------------------------------------- bounds
NumThreads == 2
MaxTime == 2
MaxBreakerTime == 4
MaxFailureThreshold == 2
MaxRecoveryTimeout == 1
MaxHalfOpenMaxCalls == 2
MaxBurst == 2
MaxRequests == 3
MaxCacheSize == 2
MaxCacheTime == 2
MaxTTL == 1
MaxEvictions == 1
MaxGets == 2
MaxStored == 2
\* time.Duration has DurationBits bits (64 in the code, scaled down), and
\* the attempts of a retry loop are 0..MaxAttempt
DurationBits == 6
MaxAttempt == 5
MaxMaxRetries == 2
MaxInitialDelay == 2
MaxMaxDelay == 4
MaxBackoffFactor == 2
\* the calls each goroutine makes of the client, and how long the clock runs
MaxCalls == 2
MaxClientTime == 2
\* AdaptiveRateLimiter: requests per metrics window, seconds of the clock, rates
MaxAdaptiveRequests == 5
MaxAdaptiveTime == 62
MaxRPS == 12

Threads == 1..NumThreads

\* ------------------------------------------------------------- constants
StateClosed == "closed"
StateOpen == "open"
StateHalfOpen == "half-open"

\* the zero time.Time of a breaker that never failed: further in the past
\* than any recovery timeout reaches
ZeroTime == 0 - (MaxRecoveryTimeout + MaxTime + MaxBreakerTime + 2)

\* the errors Allow and Wait return
ErrNil == "nil"
ErrCircuitBreaker == "circuit breaker is"
ErrRateLimit == "rate limit exceeded"
ErrContext == "context"

NoStreak == 0 - 1

\* the cache's keys (any string, the empty one included) and values
Keys == {"", "a", "b"}
Values == {"v1", "v2"}
\* Get's nil result
NoValue == "nil"

VARIABLES
    config,            \* Config: the limiter's and the breaker's settings
    now,               \* time.Now()
    cb,                \* CircuitBreaker: state, failureCount, successCount, lastFailureTime
    tokens,            \* rate.Limiter: tokens in the bucket
    metrics,           \* rateLimitMetrics
    pc,                \* each goroutine's position
    op,                \* each goroutine's call in progress
    cnow,              \* CanExecute's local now
    ev,                \* history: what the last step did (the call that returned, with what)
    fired,             \* history: this CanExecute call made the Open -> HalfOpen transition
    pre,               \* history: the breaker's state before the last step
    openedFrom,        \* history: the state from which the breaker last entered Open
    consecFailures,    \* history: OnFailure calls since the last OnSuccess
    halfOpenAdmitted,  \* history: CanExecute calls answered true since HalfOpen was entered
    trips,             \* history: entries into Open since construction / ResetMetrics
    streak,            \* history: Allow calls answered nil in a row on a full bucket, no time elapsing
    cache,             \* Cache: items, maxSize, defaultTTL, stats
    reader,            \* each goroutine's Get in progress: position, key, counters to bump, register
    cev,               \* history: what the last step of the cache did
    getCalls,          \* history: Get calls made
    raced,             \* history: two Get calls have overlapped
    snap,              \* history: the stats, the items, the time and the outcome when the last Get began
    lastSet,           \* history: the value of the most recent Set / SetWithTTL of each key
    served,            \* history: hits served for each entry since it was stored
    stored,            \* history: the ExpiresAt of every entry stored so far, in order
    retryConfig,       \* RetryConfig: the retry policy
    rev,               \* history: the last call of the retry policy, its arguments and its result
    clientConfig,      \* EnhancedClientConfig: EnableCache, EnableMetrics, CacheConfig.ItemTTL
    client,            \* each goroutine's call of the EnhancedClient in progress
    cmetrics,          \* ClientMetrics
    upstream,          \* the resource as the upstream API holds it
    clev,              \* history: the last call of the EnhancedClient that returned, with what
    chist,             \* history: what each goroutine's call in progress has done so far
    adaptive,          \* AdaptiveRateLimiter: baseRPS, currentRPS, minRPS, maxRPS, lastAdjust
    aev                \* history: the last step of the AdaptiveRateLimiter

vars == <<config, now, cb, tokens, metrics, pc, op, cnow, ev, fired, pre, openedFrom,
          consecFailures, halfOpenAdmitted, trips, streak,
          cache, reader, cev, getCalls, raced, snap, lastSet, served, stored,
          retryConfig, rev,
          clientConfig, client, cmetrics, upstream, clev, chist, adaptive, aev>>

\* the limiter's part of the state, and the two groups of history variables
rlvars == <<tokens, metrics>>
breakerHistory == <<fired, pre, openedFrom, consecFailures, halfOpenAdmitted>>
limiterHistory == <<trips, streak>>
\* the cache's state and its history variables
cacheVars == <<cache, reader>>
cacheHistory == <<cev, getCalls, raced, snap, lastSet, served, stored>>
\* the retry policy and the history of its calls
retryVars == <<retryConfig, rev>>
\* the enhanced client, the upstream it talks to, and the history of its calls
clientVars == <<clientConfig, client, cmetrics, upstream>>
clientHistory == <<clev, chist>>
\* the adaptive rate limiter and the history of its calls
adaptiveVars == <<adaptive, aev>>

\* ------------------------------------------------------------ the events
Event(o, r) == [op |-> o, ret |-> r]
NoEvent == Event("-", "-")

\* ------------------------------------------------- construction (Init)
\* NewRateLimiter: non-positive settings are replaced by the defaults
DefaultBurst == 20
DefaultFailureThreshold == 5
DefaultRecoveryTimeout == 60
DefaultHalfOpenMaxCalls == 3

NewRateLimiter(c) ==
    [Burst            |-> IF c.Burst <= 0 THEN DefaultBurst ELSE c.Burst,
     FailureThreshold |-> IF c.FailureThreshold <= 0 THEN DefaultFailureThreshold
                          ELSE c.FailureThreshold,
     RecoveryTimeout  |-> IF c.RecoveryTimeout <= 0 THEN DefaultRecoveryTimeout
                          ELSE c.RecoveryTimeout,
     HalfOpenMaxCalls |-> IF c.HalfOpenMaxCalls <= 0 THEN DefaultHalfOpenMaxCalls
                          ELSE c.HalfOpenMaxCalls]

Configs ==
    [Burst            : 1..MaxBurst,
     FailureThreshold : 1..MaxFailureThreshold,
     RecoveryTimeout  : 1..MaxRecoveryTimeout,
     HalfOpenMaxCalls : 1..MaxHalfOpenMaxCalls]

\* NewCache: an empty cache with zeroed statistics
NewCache(maxSize, defaultTTL) ==
    [items      |-> << >>,
     maxSize    |-> maxSize,
     defaultTTL |-> defaultTTL,
     stats      |-> [Hits |-> 0, Misses |-> 0, Evictions |-> 0, Expirations |-> 0]]

\* a goroutine that is not inside Get
IdleReader == [pc |-> "idle", key |-> "", todo |-> << >>, reg |-> 0]

CacheEvent(o, k, r) == [op |-> o, key |-> k, ret |-> r]
NoCacheEvent == CacheEvent("-", "", "-")

\* nothing the observer holds of a Get: none is in progress
NoSnap == [stats |-> NewCache(0, 0).stats, items |-> << >>, at |-> 0, kind |-> "-"]

\* the cache c just constructed, no call made yet
CacheStart(c) ==
    /\ cache = c
    /\ reader = [t \in Threads |-> IdleReader]
    /\ cev = NoCacheEvent
    /\ getCalls = 0
    /\ raced = FALSE
    /\ snap = NoSnap
    /\ lastSet = [k \in Keys |-> NoValue]
    /\ served = [k \in Keys |-> 0]
    /\ stored = << >>

\* ErrorType: the categories of errors
ErrorTypeValidation == "validation"
ErrorTypeAuthentication == "authentication"
ErrorTypeAuthorization == "authorization"
ErrorTypeRateLimit == "rate_limit"
ErrorTypeNetwork == "network"
ErrorTypeAPI == "api"
ErrorTypeInternal == "internal"
ErrorTypeCircuitBreaker == "circuit_breaker"
ErrorTypeTimeout == "timeout"
ErrorTypeNotFound == "not_found"
ErrorTypeConflict == "conflict"

\* Severity: the severity levels of an error
SeverityLow == "low"
SeverityMedium == "medium"
SeverityHigh == "high"
SeverityCritical == "critical"

ErrorTypes ==
    {ErrorTypeValidation, ErrorTypeAuthentication, ErrorTypeAuthorization,
     ErrorTypeRateLimit, ErrorTypeNetwork, ErrorTypeAPI, ErrorTypeInternal,
     ErrorTypeCircuitBreaker, ErrorTypeTimeout, ErrorTypeNotFound, ErrorTypeConflict}

\* time.Second, in the unit of the scaled-down time.Duration
Second == 1

\* DefaultRetryConfig
DefaultMaxRetries == 3
DefaultInitialDelay == 1 * Second
DefaultMaxDelay == 30 * Second
DefaultBackoffFactor == 2

DefaultRetryConfig ==
    [MaxRetries      |-> DefaultMaxRetries,
     InitialDelay    |-> DefaultInitialDelay,
     MaxDelay        |-> DefaultMaxDelay,
     BackoffFactor   |-> DefaultBackoffFactor,
     RetryableErrors |-> {ErrorTypeNetwork, ErrorTypeTimeout, ErrorTypeRateLimit,
                          ErrorTypeCircuitBreaker}]

RetryEvent(o, e, a, r) == [op |-> o, err |-> e, attempt |-> a, ret |-> r]
NoRetryEvent == RetryEvent("-", "-", 0, "-")

\* the retry policy c, no call made yet
RetryStart(c) ==
    /\ retryConfig = c
    /\ rev = NoRetryEvent

\* no error: nil
NilError == [app |-> FALSE, Type |-> "nil", Retryable |-> FALSE, Severity |-> ""]

\* no response of the upstream at hand
NoResponse == [failed |-> FALSE, status |-> 0]

\* a goroutine that is not inside a call of the client
IdleClient ==
    [pc |-> "idle", call |-> "-", method |-> "-", key |-> "", attempt |-> 0,
     lastErr |-> NilError, result |-> NoValue, found |-> FALSE, cached |-> NoValue,
     resp |-> NoResponse, done |-> FALSE, calls |-> 0]

ClientEvent(t, c, k, e, r) == [t |-> t, call |-> c, key |-> k, err |-> e, result |-> r]
NoClientEvent == ClientEvent(0, "-", "", NilError, NoValue)

\* nothing done yet by a call
NoClientHistory ==
    [served |-> FALSE, got2xx |-> FALSE, waits |-> 0, transports |-> 0,
     denied |-> "-", cancelledAt |-> "-", after |-> 0,
     items |-> << >>, metrics |-> << >>, cb |-> << >>, last |-> NilError, shut |-> FALSE,
     admit |-> << >>, call |-> "-", late |-> FALSE]

\* the client built from the configuration cfg, no call made yet
ClientStart(cfg) ==
    /\ clientConfig = cfg
    /\ client = [t \in Threads |-> IdleClient]
    /\ cmetrics = [TotalRequests |-> 0, SuccessfulRequests |-> 0, FailedRequests |-> 0,
                   CacheHits |-> 0, CacheMisses |-> 0]
    /\ upstream = "v1"
    /\ clev = NoClientEvent
    /\ chist = [t \in Threads |-> NoClientHistory]

\* the client nobody uses
NoClient == [EnableCache |-> FALSE, EnableMetrics |-> FALSE, ItemTTL |-> 0]

\* what the observer holds of the step just taken on the adaptive limiter:
\* the operation, and the limiter, its metrics, its breaker's state and the
\* time before it
AdaptiveEvent(o, b, m, s, n) == [op |-> o, before |-> b, metrics |-> m, state |-> s, now |-> n]

\* the adaptive limiter nobody uses
NoAdaptive ==
    [baseRPS |-> 0, currentRPS |-> [num |-> 0, den |-> 1], minRPS |-> 0, maxRPS |-> 0,
     limit |-> [num |-> 0, den |-> 1], lastAdjust |-> 0]

NoAdaptiveEvent == AdaptiveEvent("-", NoAdaptive, << >>, "-", 0)

\* the adaptive limiter a just constructed
AdaptiveStart(a) ==
    /\ adaptive = a
    /\ aev = NoAdaptiveEvent

\* the parts of the program a specification leaves aside
Unused == ClientStart(NoClient) /\ AdaptiveStart(NoAdaptive)

\* the limiter and its breaker just constructed
LimiterStart ==
    /\ now = 0
    /\ cb = [state |-> StateClosed, failureCount |-> 0, successCount |-> 0,
             lastFailureTime |-> ZeroTime]
    /\ tokens = config.Burst
    /\ metrics = [TotalRequests |-> 0, AllowedRequests |-> 0, RejectedRequests |-> 0,
                  CircuitBreakerTrips |-> 0, LastReset |-> 0]
    /\ pc = [t \in Threads |-> "idle"]
    /\ op = [t \in Threads |-> "none"]
    /\ cnow = [t \in Threads |-> 0]
    /\ ev = NoEvent
    /\ fired = [t \in Threads |-> FALSE]
    /\ pre = StateClosed
    /\ openedFrom = "-"
    /\ consecFailures = 0
    /\ halfOpenAdmitted = 0
    /\ trips = 0
    /\ streak = 0

Init ==
    /\ config \in {NewRateLimiter(c) : c \in Configs}
    /\ LimiterStart
    /\ CacheStart(NewCache(1, 1))
    /\ RetryStart(DefaultRetryConfig)
    /\ Unused

Bump(n, cap) == IF n < cap THEN n + 1 ELSE n

\* ------------------------------------------------------ CircuitBreaker
\* Variant: OnSuccess that closes the breaker without clearing failureCount
CircuitBreaker_OnSuccess_KeepsFailures(c) ==
    CASE c.state = StateClosed -> [c EXCEPT !.failureCount = 0]
      [] c.state = StateHalfOpen ->
            IF c.successCount + 1 >= config.HalfOpenMaxCalls
            THEN [c EXCEPT !.state = StateClosed, !.successCount = 0]
            ELSE [c EXCEPT !.successCount = c.successCount + 1]
      [] OTHER -> c

\* Variant: OnSuccess that closes the breaker without clearing successCount
CircuitBreaker_OnSuccess_KeepsCount(c) ==
    CASE c.state = StateClosed -> [c EXCEPT !.failureCount = 0]
      [] c.state = StateHalfOpen ->
            IF c.successCount + 1 >= config.HalfOpenMaxCalls
            THEN [c EXCEPT !.state = StateClosed, !.failureCount = 0,
                           !.successCount = c.successCount + 1]
            ELSE [c EXCEPT !.successCount = c.successCount + 1]
      [] OTHER -> c

\* OnSuccess, on the breaker record
CircuitBreaker_OnSuccess(c) ==
    CASE c.state = StateClosed -> [c EXCEPT !.failureCount = 0]
      [] c.state = StateHalfOpen ->
            IF c.successCount + 1 >= config.HalfOpenMaxCalls
            THEN [c EXCEPT !.state = StateClosed, !.failureCount = 0, !.successCount = 0]
            ELSE [c EXCEPT !.successCount = c.successCount + 1]
      [] OTHER -> c

\* Variant: OnFailure that trips one failure late: > for >=
CircuitBreaker_OnFailure_Late(c, n) ==
    LET d == [c EXCEPT !.lastFailureTime = n] IN
    CASE c.state = StateClosed ->
            IF c.failureCount + 1 > config.FailureThreshold
            THEN [d EXCEPT !.failureCount = c.failureCount + 1, !.state = StateOpen]
            ELSE [d EXCEPT !.failureCount = c.failureCount + 1]
      [] c.state = StateHalfOpen -> [d EXCEPT !.state = StateOpen, !.successCount = 0]
      [] OTHER -> d

\* Variant: OnFailure that stamps lastFailureTime only while Closed
CircuitBreaker_OnFailure_StaleTimer(c, n) ==
    CASE c.state = StateClosed ->
            IF c.failureCount + 1 >= config.FailureThreshold
            THEN [c EXCEPT !.lastFailureTime = n, !.failureCount = c.failureCount + 1,
                           !.state = StateOpen]
            ELSE [c EXCEPT !.lastFailureTime = n, !.failureCount = c.failureCount + 1]
      [] c.state = StateHalfOpen -> [c EXCEPT !.state = StateOpen, !.successCount = 0]
      [] OTHER -> c

\* Variant: OnFailure that leaves the timer of an Open breaker alone
CircuitBreaker_OnFailure_OpenKeepsTimer(c, n) ==
    CASE c.state = StateClosed ->
            IF c.failureCount + 1 >= config.FailureThreshold
            THEN [c EXCEPT !.lastFailureTime = n, !.failureCount = c.failureCount + 1,
                           !.state = StateOpen]
            ELSE [c EXCEPT !.lastFailureTime = n, !.failureCount = c.failureCount + 1]
      [] c.state = StateHalfOpen ->
            [c EXCEPT !.lastFailureTime = n, !.state = StateOpen, !.successCount = 0]
      [] OTHER -> c

\* OnFailure at time n, on the breaker record
CircuitBreaker_OnFailure(c, n) ==
    LET d == [c EXCEPT !.lastFailureTime = n] IN
    CASE c.state = StateClosed ->
            IF c.failureCount + 1 >= config.FailureThreshold
            THEN [d EXCEPT !.failureCount = c.failureCount + 1, !.state = StateOpen]
            ELSE [d EXCEPT !.failureCount = c.failureCount + 1]
      [] c.state = StateHalfOpen -> [d EXCEPT !.state = StateOpen, !.successCount = 0]
      [] OTHER -> d

\* the recovery timeout has elapsed at time n
Recovered(c, n) == n - c.lastFailureTime > config.RecoveryTimeout

\* CanExecute's write-locked section, with the now read before the lock was dropped
CircuitBreaker_Upgrade(c, n) ==
    IF c.state = StateOpen /\ Recovered(c, n)
    THEN [c EXCEPT !.state = StateHalfOpen, !.successCount = 0]
    ELSE c

\* CanExecute's answer while HalfOpen
HalfOpenAnswer(c) == c.successCount < config.HalfOpenMaxCalls

\* Variant: Allow / Wait that go on to the limiter whatever the breaker answered
AfterCanExecute_IgnoresBreaker(o, b) ==
    IF o \in {"Allow", "Wait"} THEN "limiter" ELSE "idle"

\* where a goroutine continues once its CanExecute has answered b
AfterCanExecute(o, b) ==
    IF o \in {"Allow", "Wait"}
    THEN (IF b THEN "limiter" ELSE "cb_rejected")
    ELSE "idle"

\* CanExecute returns b to goroutine t (a direct call, or inside Allow / Wait)
CanExecuteReturns(t, b) ==
    /\ pc' = [pc EXCEPT ![t] = AfterCanExecute(op[t], b)]
    /\ op' = [op EXCEPT ![t] = IF op[t] \in {"Allow", "Wait"} THEN op[t] ELSE "none"]
    /\ cnow' = [cnow EXCEPT ![t] = 0]
    /\ ev' = Event("CanExecute", b)

\* CanExecute, first read-locked section: now := time.Now(); switch c.state
CanExecute(t) ==
    /\ pc[t] \in {"idle", "can_execute"}
    /\ UNCHANGED <<config, now, cb, rlvars>>
    /\ IF cb.state = StateOpen /\ Recovered(cb, now)
       THEN /\ pc' = [pc EXCEPT ![t] = "ce_lock"]
            /\ op' = [op EXCEPT ![t] = IF pc[t] = "idle" THEN "CanExecute" ELSE op[t]]
            /\ cnow' = [cnow EXCEPT ![t] = now]
            /\ ev' = NoEvent
       ELSE CanExecuteReturns(t, CASE cb.state = StateClosed -> TRUE
                                   [] cb.state = StateOpen -> FALSE
                                   [] cb.state = StateHalfOpen -> HalfOpenAnswer(cb)
                                   [] OTHER -> FALSE)

\* CanExecute, the write-locked section taken after the read lock was released
CanExecuteLock(t) ==
    /\ pc[t] = "ce_lock"
    /\ cb' = CircuitBreaker_Upgrade(cb, cnow[t])
    /\ pc' = [pc EXCEPT ![t] = "ce_reread"]
    /\ ev' = NoEvent
    /\ UNCHANGED <<config, now, op, cnow, rlvars>>

\* CanExecute, the read lock taken again: return c.state == StateHalfOpen
CanExecuteReread(t) ==
    /\ pc[t] = "ce_reread"
    /\ UNCHANGED <<config, now, cb, rlvars>>
    /\ CanExecuteReturns(t, cb.state = StateHalfOpen)

\* RateLimiter.OnSuccess: pass-through to the breaker
OnSuccess(t) ==
    /\ pc[t] = "idle"
    /\ cb' = CircuitBreaker_OnSuccess(cb)
    /\ ev' = Event("OnSuccess", "-")
    /\ UNCHANGED <<config, now, pc, op, cnow, rlvars>>

\* RateLimiter.OnFailure: pass-through to the breaker
OnFailure(t) ==
    /\ pc[t] = "idle"
    /\ cb' = CircuitBreaker_OnFailure(cb, now)
    /\ ev' = Event("OnFailure", "-")
    /\ UNCHANGED <<config, now, pc, op, cnow, rlvars>>

\* CircuitBreaker.State / RateLimiter.GetCircuitBreakerState
State(t) ==
    /\ pc[t] = "idle"
    /\ ev' = Event("State", cb.state)
    /\ UNCHANGED <<config, now, cb, pc, op, cnow, rlvars>>

\* ------------------------------------------------------------- the clock
Min(a, b) == IF a < b THEN a ELSE b

\* time passes: the bucket refills one token, up to the burst
Tick(limit) ==
    /\ now < limit
    /\ now' = now + 1
    /\ tokens' = Min(tokens + 1, config.Burst)
    /\ ev' = NoEvent
    /\ UNCHANGED <<config, cb, metrics, pc, op, cnow>>

\* ---------------------------------------------------------- RateLimiter
\* GetMetrics: the snapshot read under the metrics read lock
GetMetrics ==
    [TotalRequests       |-> metrics.TotalRequests,
     AllowedRequests     |-> metrics.AllowedRequests,
     RejectedRequests    |-> metrics.RejectedRequests,
     CircuitBreakerTrips |-> metrics.CircuitBreakerTrips,
     LastReset           |-> metrics.LastReset]

\* Allow / Wait, first critical section: TotalRequests++; CanExecute comes next
Admission(t, o) ==
    /\ pc[t] = "idle"
    /\ metrics.TotalRequests < MaxRequests
    /\ metrics' = [metrics EXCEPT !.TotalRequests = metrics.TotalRequests + 1]
    /\ pc' = [pc EXCEPT ![t] = "can_execute"]
    /\ op' = [op EXCEPT ![t] = o]
    /\ ev' = NoEvent
    /\ UNCHANGED <<config, now, cb, tokens, cnow>>

Allow(t) == Admission(t, "Allow")

Wait(t) == Admission(t, "Wait")

\* Variant: an admission that leaves the token in the bucket
TakeToken_Free(n) == n

\* the bucket after limiter.Allow() / limiter.Wait() took a token
TakeToken(n) == n - 1

\* r.limiter.Allow(): take a token if there is one, never block
LimiterAllow(t) ==
    /\ pc[t] = "limiter"
    /\ op[t] = "Allow"
    /\ IF tokens >= 1
       THEN /\ tokens' = TakeToken(tokens)
            /\ pc' = [pc EXCEPT ![t] = "allowed"]
       ELSE /\ tokens' = tokens
            /\ pc' = [pc EXCEPT ![t] = "rl_rejected"]
    /\ ev' = NoEvent
    /\ UNCHANGED <<config, now, cb, metrics, op, cnow>>

\* r.limiter.Wait(ctx): blocked until a token is there
LimiterWait(t) ==
    /\ pc[t] = "limiter"
    /\ op[t] = "Wait"
    /\ tokens >= 1
    /\ tokens' = TakeToken(tokens)
    /\ pc' = [pc EXCEPT ![t] = "allowed"]
    /\ ev' = NoEvent
    /\ UNCHANGED <<config, now, cb, metrics, op, cnow>>

\* r.limiter.Wait(ctx): ctx is done (cancelled, or its deadline too near): an error, no token
LimiterWaitCancelled(t) ==
    /\ pc[t] = "limiter"
    /\ op[t] = "Wait"
    /\ pc' = [pc EXCEPT ![t] = "rl_rejected"]
    /\ ev' = NoEvent
    /\ UNCHANGED <<config, now, cb, tokens, metrics, op, cnow>>

\* Allow / Wait return e to goroutine t
AdmissionReturns(t, e) ==
    /\ pc' = [pc EXCEPT ![t] = "idle"]
    /\ op' = [op EXCEPT ![t] = "none"]
    /\ ev' = Event(op[t], e)
    /\ UNCHANGED <<config, now, cb, tokens, cnow>>

\* Variant: a denial by the breaker that counts as a failure
RejectedByBreaker_CountsFailure(t) ==
    /\ pc[t] = "cb_rejected"
    /\ metrics' = [metrics EXCEPT !.RejectedRequests = metrics.RejectedRequests + 1]
    /\ pc' = [pc EXCEPT ![t] = "idle"]
    /\ op' = [op EXCEPT ![t] = "none"]
    /\ ev' = Event(op[t], ErrCircuitBreaker)
    /\ cb' = CircuitBreaker_OnFailure(cb, now)
    /\ UNCHANGED <<config, now, tokens, cnow>>

\* the breaker denied: RejectedRequests++; return "circuit breaker is <State()>"
\* (the State() read only words the message)
RejectedByBreaker(t) ==
    /\ pc[t] = "cb_rejected"
    /\ metrics' = [metrics EXCEPT !.RejectedRequests = metrics.RejectedRequests + 1]
    /\ AdmissionReturns(t, ErrCircuitBreaker)

\* the limiter denied: RejectedRequests++; return the error
RejectedByLimiter(t) ==
    /\ pc[t] = "rl_rejected"
    /\ metrics' = [metrics EXCEPT !.RejectedRequests = metrics.RejectedRequests + 1]
    /\ AdmissionReturns(t, IF op[t] = "Allow" THEN ErrRateLimit ELSE ErrContext)

\* admitted: AllowedRequests++; return nil
Allowed(t) ==
    /\ pc[t] = "allowed"
    /\ metrics' = [metrics EXCEPT !.AllowedRequests = metrics.AllowedRequests + 1]
    /\ AdmissionReturns(t, ErrNil)

\* ResetMetrics: every counter to zero, LastReset = now
ResetMetrics(t) ==
    /\ pc[t] = "idle"
    /\ metrics' = [TotalRequests |-> 0, AllowedRequests |-> 0, RejectedRequests |-> 0,
                   CircuitBreakerTrips |-> 0, LastReset |-> now]
    /\ ev' = Event("ResetMetrics", "-")
    /\ UNCHANGED <<config, now, cb, tokens, pc, op, cnow>>

\* ------------------------------------------------------------- history
\* The history variables watch the step just taken (ev' names it); they are
\* read by no action.

\* what the breaker's observer records
BreakerHistory ==
    /\ pre' = cb.state
    /\ openedFrom' = IF cb.state # StateOpen /\ cb'.state = StateOpen THEN cb.state
                     ELSE openedFrom
    /\ fired' = [t \in Threads |->
                    CASE pc[t] = "ce_lock" /\ pc'[t] = "ce_reread" -> cb'.state # cb.state
                      [] pc[t] = "ce_reread" /\ pc'[t] # "ce_reread" -> FALSE
                      [] OTHER -> fired[t]]
    /\ consecFailures' =
          CASE ev'.op = "OnFailure" -> Bump(consecFailures, config.FailureThreshold + 1)
            [] ev'.op = "OnSuccess" -> 0
            [] OTHER -> consecFailures
    /\ halfOpenAdmitted' =
          CASE cb'.state # StateHalfOpen -> 0
            [] cb.state # StateHalfOpen -> 0
            [] ev'.op = "CanExecute" /\ ev'.ret = TRUE ->
                  Bump(halfOpenAdmitted, config.HalfOpenMaxCalls + 1)
            [] OTHER -> halfOpenAdmitted

\* what the limiter's observer records
LimiterHistory ==
    /\ trips' =
          CASE ev'.op = "ResetMetrics" -> 0
            [] cb.state # StateOpen /\ cb'.state = StateOpen -> trips + 1
            [] OTHER -> trips
    /\ streak' =
          CASE now' # now ->
                  IF tokens' = config.Burst /\ cb.state = StateClosed
                     /\ \A t \in Threads : pc[t] = "idle"
                  THEN 0 ELSE NoStreak
            [] cb'.state # StateClosed -> NoStreak
            [] \E t \in Threads : pc[t] = "idle" /\ pc'[t] = "can_execute" ->
                  IF (\A t \in Threads : pc[t] = "idle")
                     /\ (\A t \in Threads : op'[t] \in {"none", "Allow"})
                  THEN streak ELSE NoStreak
            [] ev'.op = "Allow" /\ ev'.ret = ErrNil /\ streak # NoStreak ->
                  Bump(streak, config.Burst + 1)
            [] OTHER -> streak

\* ---------------------------------------------------- the whole limiter
\* RateLimiter's methods, called by any goroutine at any time
LimiterObserved ==
    LimiterHistory /\ UNCHANGED breakerHistory /\ UNCHANGED <<cacheVars, cacheHistory, retryVars, clientVars, clientHistory, adaptiveVars>>

Next ==
    \/ \E t \in Threads : Allow(t) /\ LimiterObserved
    \/ \E t \in Threads : Wait(t) /\ LimiterObserved
    \/ \E t \in Threads : pc[t] = "can_execute" /\ CanExecute(t) /\ LimiterObserved
    \/ \E t \in Threads : CanExecuteLock(t) /\ LimiterObserved
    \/ \E t \in Threads : CanExecuteReread(t) /\ LimiterObserved
    \/ \E t \in Threads : LimiterAllow(t) /\ LimiterObserved
    \/ \E t \in Threads : LimiterWait(t) /\ LimiterObserved
    \/ \E t \in Threads : LimiterWaitCancelled(t) /\ LimiterObserved
    \/ \E t \in Threads : RejectedByBreaker(t) /\ LimiterObserved
    \/ \E t \in Threads : RejectedByLimiter(t) /\ LimiterObserved
    \/ \E t \in Threads : Allowed(t) /\ LimiterObserved
    \/ \E t \in Threads : OnSuccess(t) /\ LimiterObserved
    \/ \E t \in Threads : OnFailure(t) /\ LimiterObserved
    \/ \E t \in Threads : ResetMetrics(t) /\ LimiterObserved
    \/ Tick(MaxTime) /\ LimiterObserved

Spec == Init /\ [][Next]_vars

\* ------------------------------------------------------ the breaker alone
\* CircuitBreaker's methods, called by any goroutine at any time
BreakerObserved ==
    BreakerHistory /\ UNCHANGED limiterHistory /\ UNCHANGED <<cacheVars, cacheHistory, retryVars, clientVars, clientHistory, adaptiveVars>>

BreakerNext ==
    \/ \E t \in Threads : CanExecute(t) /\ BreakerObserved
    \/ \E t \in Threads : CanExecuteLock(t) /\ BreakerObserved
    \/ \E t \in Threads : CanExecuteReread(t) /\ BreakerObserved
    \/ \E t \in Threads : OnSuccess(t) /\ BreakerObserved
    \/ \E t \in Threads : OnFailure(t) /\ BreakerObserved
    \/ \E t \in Threads : State(t) /\ BreakerObserved
    \/ Tick(MaxBreakerTime) /\ BreakerObserved

BreakerSpec == Init /\ [][BreakerNext]_vars

\* ================================================================== Cache
\* Cache (package cache).  Get runs under the read lock, which any number of
\* goroutines hold together; SetWithTTL, Delete, Clear and cleanup run under
\* the write lock, which excludes every Get in progress.  Each x++ that Get
\* makes is a load and a store, between which the other readers run.
limiterVars == <<config, now, cb, tokens, metrics, pc, op, cnow, ev>>

\* Variant: an item that expires at its deadline: >= for After
IsExpired_AtDeadline(item, n) == n >= item.ExpiresAt

\* CacheItem.IsExpired at time n
IsExpired(item, n) == n > item.ExpiresAt

\* c.items[key] exists
Has(c, key) == key \in DOMAIN c.items

\* Size: len(c.items)
Size(c) == Cardinality(DOMAIN c.items)

\* Stats: a copy of the counters
Stats(c) == c.stats

\* HitRate: Hits / (Hits + Misses) * 100 as the fraction num / den
HitRate(s) ==
    LET total == s.Hits + s.Misses
    IN  IF total = 0 THEN [num |-> 0, den |-> 1] ELSE [num |-> s.Hits * 100, den |-> total]

\* c.items[key] = item, and delete(c.items, key) for the keys ks
Put(items, key, item) ==
    [k \in (DOMAIN items) \cup {key} |-> IF k = key THEN item ELSE items[k]]
Remove(items, ks) == [k \in (DOMAIN items) \ ks |-> items[k]]

\* the orders in which range may visit the keys S of a map
Orders(S) ==
    {o \in [1..Cardinality(S) -> S] : \A i, j \in 1..Cardinality(S) : o[i] = o[j] => i = j}

\* evictLRU's loop from position i of the visiting order on
RECURSIVE Oldest(_, _, _, _, _)
Oldest(items, order, i, oldestKey, oldestTime) ==
    IF i > Len(order) THEN oldestKey
    ELSE LET key == order[i]
             item == items[key]
         IN  IF oldestKey = "" \/ item.AccessedAt < oldestTime
             THEN Oldest(items, order, i + 1, key, item.AccessedAt)
             ELSE Oldest(items, order, i + 1, oldestKey, oldestTime)

\* evictLRU, range visiting the keys in the given order
evictLRU(c, order) ==
    LET oldestKey == Oldest(c.items, order, 1, "", ZeroTime)
    IN  IF oldestKey # ""
        THEN [c EXCEPT !.items = Remove(c.items, {oldestKey}),
                       !.stats.Evictions = @ + 1]
        ELSE c

\* SetWithTTL's critical section at time n
Cache_SetWithTTL(c, key, value, ttl, n, order) ==
    LET item == [Value |-> value, ExpiresAt |-> n + ttl, AccessedAt |-> n, HitCount |-> 0]
        c1 == IF Size(c) >= c.maxSize THEN evictLRU(c, order) ELSE c
    IN  [c1 EXCEPT !.items = Put(c1.items, key, item)]

\* no goroutine holds the read lock
NoReader == \A t \in Threads : reader[t].pc = "idle"

SetWithTTL(key, value, ttl) ==
    /\ NoReader
    /\ (Size(cache) < cache.maxSize \/ cache.stats.Evictions < MaxEvictions)
    /\ \E order \in (IF Size(cache) >= cache.maxSize THEN Orders(DOMAIN cache.items)
                      ELSE {<< >>}) :
          cache' = Cache_SetWithTTL(cache, key, value, ttl, now, order)
    /\ cev' = CacheEvent("Set", key, [value |-> value, ttl |-> ttl])
    /\ UNCHANGED <<reader, limiterVars>>

\* Set: SetWithTTL with the default TTL
Set(key, value) == SetWithTTL(key, value, cache.defaultTTL)

Delete(key) ==
    /\ NoReader
    /\ cache' = [cache EXCEPT !.items = Remove(cache.items, {key})]
    /\ cev' = CacheEvent("Delete", key, "-")
    /\ UNCHANGED <<reader, limiterVars>>

\* Variant: a Clear that starts the cache afresh, statistics included
Cache_Clear_ResetsStats(c) == NewCache(c.maxSize, c.defaultTTL)

\* Clear's critical section
Cache_Clear(c) == [c EXCEPT !.items = << >>]

Clear ==
    /\ NoReader
    /\ cache' = Cache_Clear(cache)
    /\ cev' = CacheEvent("Clear", "", "-")
    /\ UNCHANGED <<reader, limiterVars>>

\* Variant: a sweep that deletes the expired entries without counting them
Cache_cleanup_Uncounted(c, n) ==
    [c EXCEPT !.items = Remove(c.items, {k \in DOMAIN c.items : IsExpired(c.items[k], n)})]

\* one run of cleanup's loop body at time n
Cache_cleanup(c, n) ==
    LET expired == {k \in DOMAIN c.items : IsExpired(c.items[k], n)}
    IN  [c EXCEPT !.items = Remove(c.items, expired),
                  !.stats.Expirations = @ + Cardinality(expired)]

cleanup ==
    /\ NoReader
    /\ cache' = Cache_cleanup(cache, now)
    /\ cev' = CacheEvent("cleanup", "", "-")
    /\ UNCHANGED <<reader, limiterVars>>

\* Variant: a Get that counts a stale entry as a miss only
Cache_Get_StaleUncounted(c, key, n) ==
    IF ~Has(c, key) \/ IsExpired(c.items[key], n)
    THEN [value |-> NoValue, found |-> FALSE, todo |-> <<"Misses">>]
    ELSE [value |-> c.items[key].Value, found |-> TRUE, todo |-> <<"HitCount", "Hits">>]

\* Get's lookup at time n: what it returns and the counters it goes on to bump
Cache_Get(c, key, n) ==
    IF ~Has(c, key)
    THEN [value |-> NoValue, found |-> FALSE, todo |-> <<"Misses">>]
    ELSE IF IsExpired(c.items[key], n)
    THEN [value |-> NoValue, found |-> FALSE, todo |-> <<"Misses", "Expirations">>]
    ELSE [value |-> c.items[key].Value, found |-> TRUE, todo |-> <<"HitCount", "Hits">>]

\* the Get calls made so far, as far as the counters tell
GetsCounted ==
    cache.stats.Hits + cache.stats.Misses + Cardinality({t \in Threads : reader[t].pc # "idle"})

\* Get takes the read lock, looks the key up and, on a hit, Touch stamps AccessedAt
Get(t, key) ==
    /\ reader[t].pc = "idle"
    /\ GetsCounted < MaxGets
    /\ LET r == Cache_Get(cache, key, now)
       IN  /\ cache' = IF r.found THEN [cache EXCEPT !.items[key].AccessedAt = now]
                       ELSE cache
           /\ reader' = [reader EXCEPT ![t] = [pc |-> "load", key |-> key,
                                               todo |-> r.todo, reg |-> 0]]
           /\ cev' = CacheEvent("Get", key, [value |-> r.value, found |-> r.found])
    /\ UNCHANGED limiterVars

\* the counter a Get bumps next, and its value; the counter changed
Counter(c, name, key) ==
    IF name = "HitCount" THEN c.items[key].HitCount ELSE c.stats[name]
WithCounter(c, name, key, v) ==
    IF name = "HitCount" THEN [c EXCEPT !.items[key].HitCount = v]
    ELSE [c EXCEPT !.stats[name] = v]

\* x++ : the load ...
GetLoad(t) ==
    /\ reader[t].pc = "load"
    /\ reader' = [reader EXCEPT ![t].pc = "store",
                                ![t].reg = Counter(cache, Head(reader[t].todo), reader[t].key)]
    /\ cev' = NoCacheEvent
    /\ UNCHANGED <<cache, limiterVars>>

\* ... and the store; after the last one Get returns and drops the read lock
GetStore(t) ==
    /\ reader[t].pc = "store"
    /\ cache' = WithCounter(cache, Head(reader[t].todo), reader[t].key, reader[t].reg + 1)
    /\ IF Tail(reader[t].todo) = << >>
       THEN /\ reader' = [reader EXCEPT ![t] = IdleReader]
            /\ cev' = CacheEvent("GetReturns", reader[t].key, "-")
       ELSE /\ reader' = [reader EXCEPT ![t].pc = "load", ![t].todo = Tail(@)]
            /\ cev' = NoCacheEvent
    /\ UNCHANGED limiterVars

\* time passes
CacheTick ==
    /\ Tick(MaxCacheTime)
    /\ cev' = NoCacheEvent
    /\ UNCHANGED cacheVars

\* what the cache's observer records
CacheHistory ==
    /\ getCalls' = IF cev'.op = "Get" THEN Bump(getCalls, MaxGets + 1) ELSE getCalls
    /\ raced' = (raced \/ (cev'.op = "Get" /\ ~NoReader))
    /\ snap' = IF cev'.op = "Get"
               THEN [stats |-> cache.stats, items |-> cache.items, at |-> now,
                     kind  |-> IF cev'.ret.found THEN "hit"
                               ELSE IF Has(cache, cev'.key) THEN "stale" ELSE "absent"]
               ELSE IF cev'.op = "GetReturns" THEN NoSnap
               ELSE snap
    /\ lastSet' = IF cev'.op = "Set" THEN [lastSet EXCEPT ![cev'.key] = cev'.ret.value]
                  ELSE lastSet
    /\ served' = [k \in Keys |->
                    CASE ~Has(cache', k) -> 0
                      [] cev'.op = "Set" /\ cev'.key = k -> 0
                      [] cev'.op = "Get" /\ cev'.key = k /\ cev'.ret.found ->
                            Bump(served[k], MaxGets + 1)
                      [] OTHER -> served[k]]

CacheObserved ==
    CacheHistory /\ UNCHANGED <<stored, breakerHistory, limiterHistory, retryVars, clientVars,
                              clientHistory, adaptiveVars>>

\* the observer that also keeps the list of the entries stored
ExpiryObserved ==
    /\ CacheHistory
    /\ stored' = IF cev'.op = "Set" THEN Append(stored, cache'.items[cev'.key].ExpiresAt)
                 ELSE stored
    /\ UNCHANGED <<breakerHistory, limiterHistory, retryVars, clientVars, clientHistory,
                   adaptiveVars>>

\* Cache's methods and its sweep, called at any time by the goroutines
\* threads, with keys and values from the given sets
CacheOps(threads, keys, values) ==
    \/ \E t \in threads, k \in keys : Get(t, k) /\ CacheObserved
    \/ \E t \in threads : GetLoad(t) /\ CacheObserved
    \/ \E t \in threads : GetStore(t) /\ CacheObserved
    \/ \E k \in keys, v \in values : Set(k, v) /\ CacheObserved
    \/ \E k \in keys, v \in values, ttl \in 0..MaxTTL : SetWithTTL(k, v, ttl) /\ CacheObserved
    \/ \E k \in keys : Delete(k) /\ CacheObserved
    \/ Clear /\ CacheObserved
    \/ cleanup /\ CacheObserved
    \/ CacheTick /\ CacheObserved

CacheInit ==
    /\ config = NewRateLimiter([Burst |-> 0, FailureThreshold |-> 0,
                                RecoveryTimeout |-> 0, HalfOpenMaxCalls |-> 0])
    /\ LimiterStart
    /\ \E m \in 1..MaxCacheSize, d \in 1..MaxTTL : CacheStart(NewCache(m, d))
    /\ RetryStart(DefaultRetryConfig)
    /\ Unused

\* one goroutine at a time uses the cache
CacheNext == CacheOps({1}, {"", "a"}, Values)
CacheSpec == CacheInit /\ [][CacheNext]_vars

\* one goroutine fills the cache with all the keys and reads them
EvictionNext ==
    \/ \E k \in Keys : Set(k, "v1") /\ CacheObserved
    \/ \E k \in Keys : Get(1, k) /\ CacheObserved
    \/ GetLoad(1) /\ CacheObserved
    \/ GetStore(1) /\ CacheObserved
    \/ CacheTick /\ CacheObserved
EvictionSpec == CacheInit /\ [][EvictionNext]_vars

\* one goroutine stores entries under one key, reads the key and the sweep runs:
\* any sequence of Set, SetWithTTL, Get and cleanup, at most MaxStored entries stored
ExpiryNext ==
    \/ Len(stored) < MaxStored /\ Set("a", "v1") /\ ExpiryObserved
    \/ \E ttl \in 0..MaxTTL :
          Len(stored) < MaxStored /\ SetWithTTL("a", "v1", ttl) /\ ExpiryObserved
    \/ Get(1, "a") /\ ExpiryObserved
    \/ GetLoad(1) /\ ExpiryObserved
    \/ GetStore(1) /\ ExpiryObserved
    \/ cleanup /\ ExpiryObserved
    \/ CacheTick /\ ExpiryObserved
ExpirySpec == CacheInit /\ [][ExpiryNext]_vars

\* the goroutines use the cache together
CacheRaceNext == CacheOps(Threads, {"a"}, {"v1"})
CacheRaceSpec == CacheInit /\ [][CacheRaceNext]_vars

\* -------------------------------------------------------- retry policy
\* an error: a *Error with its Type and its Retryable flag, or any other error
\* NewError: a *Error of the given type, not retryable
NewError(errType) ==
    [app |-> TRUE, Type |-> errType, Retryable |-> FALSE, Severity |-> SeverityMedium]
WithRetryable(e, retryable) == [e EXCEPT !.Retryable = retryable]
WithSeverity(e, severity) == [e EXCEPT !.Severity = severity]
\* an error that is not a *Error (errors.New, fmt.Errorf, ...)
PlainError == [app |-> FALSE, Type |-> "", Retryable |-> FALSE, Severity |-> ""]

NewRateLimitError == WithRetryable(NewError(ErrorTypeRateLimit), TRUE)
NewNetworkError == WithRetryable(NewError(ErrorTypeNetwork), TRUE)
NewTimeoutError == WithRetryable(NewError(ErrorTypeTimeout), TRUE)
NewCircuitBreakerError ==
    WithSeverity(WithRetryable(NewError(ErrorTypeCircuitBreaker), TRUE), SeverityHigh)
NewValidationError == WithSeverity(NewError(ErrorTypeValidation), SeverityLow)
NewAuthenticationError == WithSeverity(NewError(ErrorTypeAuthentication), SeverityHigh)
NewAuthorizationError == WithSeverity(NewError(ErrorTypeAuthorization), SeverityHigh)
NewNotFoundError == WithSeverity(NewError(ErrorTypeNotFound), SeverityLow)
NewConflictError == NewError(ErrorTypeConflict)
NewInternalError == WithSeverity(NewError(ErrorTypeInternal), SeverityCritical)

\* the errors a caller can hand to ShouldRetry
Errors ==
    {PlainError} \cup {WithRetryable(NewError(t), b) : t \in ErrorTypes, b \in BOOLEAN}

IsRetryable(err) == IF err.app THEN err.Retryable ELSE FALSE

GetErrorType(err) == IF err.app THEN err.Type ELSE ErrorTypeInternal

RetryConfig_ShouldRetry_OneMore(c, err, attempt) ==
    IF attempt > c.MaxRetries THEN FALSE
    ELSE IF ~IsRetryable(err) THEN FALSE
    ELSE GetErrorType(err) \in c.RetryableErrors

RetryConfig_ShouldRetry(c, err, attempt) ==
    IF attempt >= c.MaxRetries THEN FALSE
    ELSE IF ~IsRetryable(err) THEN FALSE
    ELSE GetErrorType(err) \in c.RetryableErrors

\* the range of time.Duration (an int64 in the code)
MaxDuration == 2^(DurationBits - 1) - 1
MinDuration == 0 - 2^(DurationBits - 1)

\* what the conversion of a float64 outside the range of time.Duration
\* gives: the result is implementation-dependent, the smallest integer on
\* amd64 and the largest on arm64
OutOfRange == {MinDuration, MaxDuration}

\* time.Duration(delay) for a float64 delay holding a whole number
ToDuration(delay, outOfRange) ==
    IF delay >= MinDuration /\ delay <= MaxDuration THEN delay ELSE outOfRange

\* the loop of CalculateDelay: delay multiplied attempt - i times more
RECURSIVE Backoff(_, _, _, _)
Backoff(delay, factor, i, attempt) ==
    IF i < attempt THEN Backoff(delay * factor, factor, i + 1, attempt) ELSE delay

RetryConfig_CalculateDelay(c, attempt, outOfRange) ==
    LET delay == Backoff(c.InitialDelay, c.BackoffFactor, 0, attempt)
    IN  IF ToDuration(delay, outOfRange) > c.MaxDelay THEN c.MaxDelay
        ELSE ToDuration(delay, outOfRange)

RetryIdle == UNCHANGED <<retryConfig, limiterVars, cacheVars, cacheHistory,
                         breakerHistory, limiterHistory, clientVars, clientHistory,
                         adaptiveVars>>

ShouldRetry(err, attempt) ==
    /\ rev' = RetryEvent("ShouldRetry", err, attempt,
                         RetryConfig_ShouldRetry(retryConfig, err, attempt))
    /\ RetryIdle

CalculateDelay(attempt) ==
    /\ \E outOfRange \in OutOfRange :
          rev' = RetryEvent("CalculateDelay", PlainError, attempt,
                            RetryConfig_CalculateDelay(retryConfig, attempt, outOfRange))
    /\ RetryIdle

\* the sets of retryable kinds of the policies: the default one, none, the
\* one of the documentation, and one with the kind of the plain errors
RetryableSets ==
    {DefaultRetryConfig.RetryableErrors, {},
     {ErrorTypeNetwork, ErrorTypeTimeout, ErrorTypeRateLimit},
     {ErrorTypeInternal, ErrorTypeAPI}}

\* the policies: the default one, and those with small settings and whole
\* backoff factors
RetryConfigs ==
    {DefaultRetryConfig} \cup
    [MaxRetries      : 0..MaxMaxRetries,
     InitialDelay    : 1..MaxInitialDelay,
     MaxDelay        : 1..MaxMaxDelay,
     BackoffFactor   : 1..MaxBackoffFactor,
     RetryableErrors : RetryableSets]

RetryInit ==
    /\ config = NewRateLimiter([Burst |-> 0, FailureThreshold |-> 0,
                                RecoveryTimeout |-> 0, HalfOpenMaxCalls |-> 0])
    /\ LimiterStart
    /\ CacheStart(NewCache(1, 1))
    /\ \E c \in RetryConfigs : RetryStart(c)
    /\ Unused

\* the policy is asked about any error and any attempt, in any order
RetryNext ==
    \/ \E err \in Errors, attempt \in 0..MaxAttempt : ShouldRetry(err, attempt)
    \/ \E attempt \in 0..MaxAttempt : CalculateDelay(attempt)
RetrySpec == RetryInit /\ [][RetryNext]_vars

\* ------------------------------------------------------ EnhancedClient
\* net/http status codes the client tells apart
StatusBadRequest == 400
StatusUnauthorized == 401
StatusForbidden == 403
StatusNotFound == 404
StatusRequestTimeout == 408
StatusConflict == 409
StatusTooManyRequests == 429

\* what a transport call comes back with: no response at all, or a response
\* with one of these status codes
StatusCodes == {200, 204, 302, 400, 401, 403, 404, 408, 409, 418, 429, 500, 503}
TransportFailure == [NoResponse EXCEPT !.failed = TRUE]
Response(s) == [failed |-> FALSE, status |-> s]
Outcomes == {TransportFailure} \cup {Response(s) : s \in StatusCodes}

NewAPIError(httpStatus) ==
    WithRetryable(
        WithSeverity(NewError(ErrorTypeAPI),
                     IF httpStatus >= 500 THEN SeverityHigh ELSE SeverityMedium),
        httpStatus = StatusTooManyRequests \/ httpStatus >= 500)

\* Variant: a classification that knows no request timeout
handleHTTPResponse_NoTimeout(statusCode) ==
    IF statusCode >= 200 /\ statusCode < 300 THEN NilError
    ELSE CASE statusCode = StatusBadRequest -> NewValidationError
           [] statusCode = StatusUnauthorized -> NewAuthenticationError
           [] statusCode = StatusForbidden -> NewAuthorizationError
           [] statusCode = StatusNotFound -> NewNotFoundError
           [] statusCode = StatusTooManyRequests -> NewRateLimitError
           [] statusCode = StatusConflict -> NewConflictError
           [] OTHER -> NewAPIError(statusCode)

handleHTTPResponse(statusCode) ==
    IF statusCode >= 200 /\ statusCode < 300 THEN NilError
    ELSE CASE statusCode = StatusBadRequest -> NewValidationError
           [] statusCode = StatusUnauthorized -> NewAuthenticationError
           [] statusCode = StatusForbidden -> NewAuthorizationError
           [] statusCode = StatusNotFound -> NewNotFoundError
           [] statusCode = StatusTooManyRequests -> NewRateLimitError
           [] statusCode = StatusConflict -> NewConflictError
           [] statusCode = StatusRequestTimeout -> NewTimeoutError
           [] OTHER -> IF statusCode >= 500 THEN NewAPIError(statusCode)
                       ELSE NewAPIError(statusCode)

\* the methods doHTTPRequest knows
Methods == {"GET", "POST", "PUT", "PATCH", "DELETE"}

\* doHTTPRequest: the error of a transport call that came back with outcome
doHTTPRequest(method, outcome) ==
    IF method \notin Methods THEN NewValidationError
    ELSE IF outcome.failed THEN NewNetworkError
    ELSE handleHTTPResponse(outcome.status)

\* ErrorHandler.Handle: errors that are no *Error become internal errors
Handle(err) == IF err.app THEN err ELSE NewInternalError

\* Variant: a copy that fails
copyCachedResult_Failing(cached, result) == [err |-> NewInternalError, result |-> result]

\* copyCachedResult: returns nil and leaves the caller's result as it is
copyCachedResult(cached, result) == [err |-> NilError, result |-> result]

generateCacheKey(method, path) == method \o ":" \o path

\* the cache keys of the item and of the list it appears in
ItemKey == generateCacheKey("GET", "/items/i")
ListKey == generateCacheKey("GET", "/workspaces/w/items?limit=1&offset=0")

\* the methods of the client on an item (those on workspaces and collections
\* have the same shape): the request each makes, and what follows it
Calls == {"GetItem", "ListItems", "CreateItem", "UpdateItem", "DeleteItem", "MoveItem"}

CallMethod(call) ==
    CASE call \in {"GetItem", "ListItems"} -> "GET"
      [] call = "CreateItem" -> "POST"
      [] call \in {"UpdateItem", "MoveItem"} -> "PATCH"
      [] OTHER -> "DELETE"

CallKey(call) ==
    CASE call = "GetItem" -> ItemKey
      [] call = "ListItems" -> ListKey
      [] OTHER -> ""

\* DeleteItem passes a nil result
HasResult(call) == call # "DeleteItem"

\* the calls that delete the item's cache key once the request succeeded
Invalidates(call) == call \in {"UpdateItem", "DeleteItem", "MoveItem"}

\* the calls that change the resource at the upstream
Mutates(call) == call \in {"CreateItem", "UpdateItem", "DeleteItem", "MoveItem"}

\* the upstream's resource after a mutation
Mutated(v) == IF v = "v1" THEN "v2" ELSE "v1"

\* the request reads the cache first
ReadsCache(c) == c.method = "GET" /\ clientConfig.EnableCache /\ c.key # ""

\* Variant: a loop that makes one attempt more
LoopHead_OneMore(c) == IF c.attempt <= retryConfig.MaxRetries + 1 THEN "wait" ELSE "failed"

\* the head of the retry loop: another attempt, or the loop is over
LoopHead(c) == IF c.attempt <= retryConfig.MaxRetries THEN "wait" ELSE "failed"

\* updateMetrics, deferred by executeRequest
updateMetrics(cm) ==
    IF ~clientConfig.EnableMetrics THEN cm
    ELSE [cm EXCEPT !.TotalRequests = cm.TotalRequests + 1]

Count(cm, counter) == [cm EXCEPT ![counter] = cm[counter] + 1]

ClientStep(t, c) == client' = [client EXCEPT ![t] = c]

\* goroutine t's call is over: err and result go to its caller
Finished(t, err, result) ==
    /\ ClientStep(t, [IdleClient EXCEPT !.calls = client[t].calls])
    /\ clev' = ClientEvent(t, client[t].call, client[t].key, err, result)

\* executeRequest returns err with the metrics cm: updateMetrics runs, and the
\* calling method hands back the error, or invalidates the cache, or hands
\* back the result
Returns(t, c, cm, err) ==
    /\ cmetrics' = updateMetrics(cm)
    /\ IF err # NilError THEN Finished(t, err, NoValue)
       ELSE IF Invalidates(c.call) /\ clientConfig.EnableCache
            THEN /\ ClientStep(t, [c EXCEPT !.pc = "invalidate"])
                 /\ clev' = NoClientEvent
            ELSE Finished(t, NilError, IF HasResult(c.call) THEN c.result ELSE NoValue)

ClientLocal == UNCHANGED <<limiterVars, cacheVars, cev>>

\* a method of the client is called: executeRequest starts with a fresh context
Call(t, call) ==
    /\ client[t].pc = "idle"
    /\ client[t].calls < MaxCalls
    /\ LET c == [IdleClient EXCEPT !.call = call, !.method = CallMethod(call),
                                   !.key = CallKey(call), !.calls = client[t].calls + 1]
       IN  ClientStep(t, [c EXCEPT !.pc = IF ReadsCache(c) THEN "cache_get" ELSE LoopHead(c)])
    /\ clev' = NoClientEvent
    /\ UNCHANGED <<clientConfig, cmetrics, upstream>>
    /\ ClientLocal

\* the context of goroutine t's call is cancelled
Cancel(t) ==
    /\ client[t].pc # "idle"
    /\ ~client[t].done
    /\ ClientStep(t, [client[t] EXCEPT !.done = TRUE])
    /\ clev' = NoClientEvent
    /\ UNCHANGED <<clientConfig, cmetrics, upstream>>
    /\ ClientLocal

\* c.cache.Get(cacheKey): the lookup
ClientCacheGet(t) ==
    /\ client[t].pc = "cache_get"
    /\ Get(t, client[t].key)
    /\ ClientStep(t, [client[t] EXCEPT !.pc = "cache_stats", !.found = cev'.ret.found,
                                       !.cached = cev'.ret.value])
    /\ clev' = NoClientEvent
    /\ UNCHANGED <<clientConfig, cmetrics, upstream>>

\* c.cache.Get(cacheKey): the counters, and the return
ClientCacheStats(t) ==
    /\ client[t].pc = "cache_stats"
    /\ GetLoad(t) \/ GetStore(t)
    /\ ClientStep(t, IF cev'.op = "GetReturns" THEN [client[t] EXCEPT !.pc = "cache_got"]
                     ELSE client[t])
    /\ clev' = NoClientEvent
    /\ UNCHANGED <<clientConfig, cmetrics, upstream>>

\* a fresh entry is served: CacheHits++, copyCachedResult, return nil
ClientCacheHit(t) ==
    /\ client[t].pc = "cache_got"
    /\ client[t].found
    /\ LET c  == client[t]
           cm == IF clientConfig.EnableMetrics THEN Count(cmetrics, "CacheHits") ELSE cmetrics
           cp == copyCachedResult(c.cached, c.result)
       IN  IF cp.err = NilError
           THEN Returns(t, [c EXCEPT !.result = cp.result], cm, NilError)
           ELSE /\ cmetrics' = IF clientConfig.EnableMetrics THEN Count(cm, "CacheMisses")
                               ELSE cm
                /\ ClientStep(t, [c EXCEPT !.pc = LoopHead(c)])
                /\ clev' = NoClientEvent
    /\ UNCHANGED <<clientConfig, upstream>>
    /\ ClientLocal

\* no fresh entry: CacheMisses++, on to the attempts
ClientCacheMiss(t) ==
    /\ client[t].pc = "cache_got"
    /\ ~client[t].found
    /\ cmetrics' = IF clientConfig.EnableMetrics THEN Count(cmetrics, "CacheMisses")
                   ELSE cmetrics
    /\ ClientStep(t, [client[t] EXCEPT !.pc = LoopHead(client[t])])
    /\ clev' = NoClientEvent
    /\ UNCHANGED <<clientConfig, upstream>>
    /\ ClientLocal

ClientUsesLimiter == UNCHANGED <<clientConfig, cmetrics, upstream, cacheVars, cev>>

\* c.rateLimiter.Wait(ctx) is called
ClientWait(t) ==
    /\ client[t].pc = "wait"
    /\ Wait(t)
    /\ ClientStep(t, [client[t] EXCEPT !.pc = "waiting"])
    /\ clev' = NoClientEvent
    /\ ClientUsesLimiter

\* Variant: an attempt that goes on to the transport call whatever Wait returned
AfterWait_IgnoresDenial(c, e) == [c EXCEPT !.pc = "http"]

\* what the attempt does once Wait returned e: the transport call, or, on an
\* error, lastErr = NewRateLimitError and continue
AfterWait(c, e) ==
    IF e = ErrNil THEN [c EXCEPT !.pc = "http"]
    ELSE LET d == [c EXCEPT !.lastErr = NewRateLimitError, !.attempt = c.attempt + 1]
         IN  [d EXCEPT !.pc = LoopHead(d)]

\* Wait runs: the steps of the limiter model, rate.Limiter.Wait giving up at
\* once when the context is done
ClientWaiting(t) ==
    /\ client[t].pc = "waiting"
    /\ \/ pc[t] = "can_execute" /\ CanExecute(t)
       \/ CanExecuteLock(t)
       \/ CanExecuteReread(t)
       \/ ~client[t].done /\ LimiterWait(t)
       \/ client[t].done /\ LimiterWaitCancelled(t)
       \/ RejectedByBreaker(t)
       \/ RejectedByLimiter(t)
       \/ Allowed(t)
    /\ ClientStep(t, IF ev'.op = "Wait" THEN AfterWait(client[t], ev'.ret) ELSE client[t])
    /\ clev' = NoClientEvent
    /\ ClientUsesLimiter

\* doHTTPRequest: the transport call comes back with some outcome (with no
\* response if the context is done); a mutation answered 2xx has changed the
\* resource, and a 2xx response fills the caller's result
ClientTransport(t) ==
    /\ client[t].pc = "http"
    /\ \E outcome \in (IF client[t].done THEN {TransportFailure} ELSE Outcomes) :
          LET c   == client[t]
              err == doHTTPRequest(c.method, outcome)
              up  == IF err = NilError /\ Mutates(c.call) THEN Mutated(upstream)
                     ELSE upstream
          IN  /\ upstream' = up
              /\ ClientStep(t, IF err = NilError
                               THEN [c EXCEPT !.pc = "on_success", !.resp = outcome,
                                              !.result = IF HasResult(c.call) THEN up
                                                         ELSE NoValue]
                               ELSE [c EXCEPT !.pc = "on_failure", !.resp = outcome,
                                              !.lastErr = Handle(err)])
    /\ clev' = NoClientEvent
    /\ UNCHANGED <<clientConfig, cmetrics>>
    /\ ClientLocal

\* the request is cached after a successful attempt
WritesCache(c) == ReadsCache(c) /\ HasResult(c.call)

\* success: c.rateLimiter.OnSuccess(), SuccessfulRequests++, and return nil
\* unless the result is cached first
ClientOnSuccess(t) ==
    /\ client[t].pc = "on_success"
    /\ OnSuccess(t)
    /\ LET c  == [client[t] EXCEPT !.resp = NoResponse]
           cm == Count(cmetrics, "SuccessfulRequests")
       IN  IF WritesCache(c)
           THEN /\ cmetrics' = cm
                /\ ClientStep(t, [c EXCEPT !.pc = "cache_set"])
                /\ clev' = NoClientEvent
           ELSE Returns(t, c, cm, NilError)
    /\ UNCHANGED <<clientConfig, upstream, cacheVars, cev>>

\* c.cache.SetWithTTL(cacheKey, result, cacheTTL), and return nil
ClientCacheSet(t) ==
    /\ client[t].pc = "cache_set"
    /\ SetWithTTL(client[t].key, client[t].result, clientConfig.ItemTTL)
    /\ Returns(t, client[t], cmetrics, NilError)
    /\ UNCHANGED <<clientConfig, upstream>>

\* what follows a failed attempt: break, the backoff, or the next attempt
AfterFailure(c) ==
    IF ~RetryConfig_ShouldRetry(retryConfig, c.lastErr, c.attempt)
    THEN [c EXCEPT !.pc = "failed"]
    ELSE IF c.attempt < retryConfig.MaxRetries
         THEN [c EXCEPT !.pc = "backoff"]
         ELSE LET d == [c EXCEPT !.attempt = c.attempt + 1] IN [d EXCEPT !.pc = LoopHead(d)]

\* Variant: a failure that is not reported to the limiter
ClientOnFailure_Silent(t) ==
    /\ client[t].pc = "on_failure"
    /\ ev' = NoEvent
    /\ ClientStep(t, AfterFailure([client[t] EXCEPT !.resp = NoResponse]))
    /\ clev' = NoClientEvent
    /\ UNCHANGED <<config, now, cb, tokens, metrics, pc, op, cnow>>
    /\ ClientUsesLimiter

\* failure: c.rateLimiter.OnFailure(), then ShouldRetry
ClientOnFailure(t) ==
    /\ client[t].pc = "on_failure"
    /\ OnFailure(t)
    /\ ClientStep(t, AfterFailure([client[t] EXCEPT !.resp = NoResponse]))
    /\ clev' = NoClientEvent
    /\ ClientUsesLimiter

\* the next attempt, after the backoff
NextAttempt(c) ==
    LET d == [c EXCEPT !.attempt = c.attempt + 1] IN [d EXCEPT !.pc = LoopHead(d)]

\* the select on ctx.Done() and time.After(delay) is entered: a context that
\* is done already ends the request with a timeout error (or, the timer of a
\* delay that is not positive being due as well, the sleep is over); else the
\* goroutine sleeps
ClientBackoff(t) ==
    /\ client[t].pc = "backoff"
    /\ \E outOfRange \in OutOfRange :
          LET c     == client[t]
              delay == RetryConfig_CalculateDelay(retryConfig, c.attempt, outOfRange)
          IN  IF c.done
              THEN \/ /\ Returns(t, c, cmetrics, NewTimeoutError)
                   \/ /\ delay <= 0
                      /\ ClientStep(t, NextAttempt(c))
                      /\ clev' = NoClientEvent
                      /\ cmetrics' = cmetrics
              ELSE /\ ClientStep(t, [c EXCEPT !.pc = "sleep"])
                   /\ clev' = NoClientEvent
                   /\ cmetrics' = cmetrics
    /\ UNCHANGED <<clientConfig, upstream>>
    /\ ClientLocal

\* the sleeping goroutine is woken by its timer
ClientSleepElapsed(t) ==
    /\ client[t].pc = "sleep"
    /\ ~client[t].done
    /\ ClientStep(t, NextAttempt(client[t]))
    /\ clev' = NoClientEvent
    /\ UNCHANGED <<clientConfig, cmetrics, upstream>>
    /\ ClientLocal

\* Variant: a sleep that a cancelled context does not end
ClientSleepCancelled_SleepsOn(t) ==
    /\ client[t].pc = "sleep"
    /\ client[t].done
    /\ ClientStep(t, NextAttempt(client[t]))
    /\ clev' = NoClientEvent
    /\ UNCHANGED <<clientConfig, cmetrics, upstream>>
    /\ ClientLocal

\* the sleeping goroutine is woken by ctx.Done(): return a timeout error
ClientSleepCancelled(t) ==
    /\ client[t].pc = "sleep"
    /\ client[t].done
    /\ Returns(t, client[t], cmetrics, NewTimeoutError)
    /\ UNCHANGED <<clientConfig, upstream>>
    /\ ClientLocal

\* the loop is over without a success: FailedRequests++, return lastErr
ClientFailed(t) ==
    /\ client[t].pc = "failed"
    /\ Returns(t, client[t], Count(cmetrics, "FailedRequests"), client[t].lastErr)
    /\ UNCHANGED <<clientConfig, upstream>>
    /\ ClientLocal

\* after a successful mutation: c.cache.Delete of the item's key
ClientInvalidate(t) ==
    /\ client[t].pc = "invalidate"
    /\ Delete(ItemKey)
    /\ Finished(t, NilError, IF HasResult(client[t].call) THEN client[t].result ELSE NoValue)
    /\ UNCHANGED <<clientConfig, cmetrics, upstream>>

\* time passes
ClientTick ==
    /\ Tick(MaxClientTime)
    /\ clev' = NoClientEvent
    /\ UNCHANGED <<clientVars, cacheVars, cev>>

\* what the client's observer records of each goroutine's call
\* goroutine u's last call was UpdateItem, DeleteItem or MoveItem, was answered
\* 2xx and has returned
MutationReturned(u) ==
    client[u].pc = "idle" /\ chist[u].got2xx /\ Invalidates(chist[u].call)

ClientHistory ==
    chist' = [u \in Threads |->
        LET h == chist[u]
            c == client[u]
            d == client'[u]
        IN  IF c.pc = "idle"
            THEN (IF d.pc # "idle"
                  THEN [NoClientHistory EXCEPT !.items = cache.items, !.metrics = metrics,
                                               !.cb = cb,
                                               !.shut = cb.state = StateOpen
                                                        /\ ~Recovered(cb, now),
                                               !.call = d.call,
                                               !.late = \E v \in Threads \ {u} :
                                                            MutationReturned(v)]
                  ELSE h)
            ELSE [served      |-> h.served \/ (c.pc = "cache_got" /\ c.found /\ d.pc # c.pc),
                  got2xx      |-> h.got2xx \/ (c.pc = "http" /\ d.pc = "on_success"),
                  waits       |-> IF c.pc = "wait" /\ d.pc = "waiting"
                                  THEN Bump(h.waits, MaxRequests + 1) ELSE h.waits,
                  transports  |-> IF c.pc = "http" /\ d.pc # "http"
                                  THEN Bump(h.transports, MaxRequests + 1) ELSE h.transports,
                  denied      |-> IF c.pc = "waiting" /\ d.pc # "waiting" THEN ev'.ret
                                  ELSE h.denied,
                  cancelledAt |-> IF ~c.done /\ d.done
                                  THEN (IF c.pc = "waiting" /\ pc[u] = "limiter"
                                        THEN "blocked" ELSE c.pc)
                                  ELSE h.cancelledAt,
                  after       |-> IF c.done /\ d.pc # c.pc
                                     /\ c.pc \in {"wait", "http", "on_success", "on_failure",
                                                  "cache_set", "invalidate"}
                                  THEN Bump(h.after, MaxRequests + 1) ELSE h.after,
                  items       |-> h.items,
                  metrics     |-> h.metrics,
                  cb          |-> h.cb,
                  last        |-> CASE c.pc = "http" /\ d.pc = "on_failure" ->
                                          Handle(doHTTPRequest(c.method, d.resp))
                                    [] c.pc = "http" /\ d.pc = "on_success" -> NilError
                                    [] c.pc = "waiting" /\ d.pc \notin {"waiting", "http"} ->
                                          NewRateLimitError
                                    [] OTHER -> h.last,
                  shut        |-> h.shut /\ cb'.state = StateOpen /\ ~Recovered(cb', now'),
                  admit       |-> IF c.pc = "wait" /\ d.pc = "waiting" THEN cb ELSE h.admit,
                  call        |-> h.call,
                  late        |-> h.late]]

ClientObserved ==
    ClientHistory /\ UNCHANGED <<breakerHistory, limiterHistory, getCalls, raced, snap,
                                 lastSet, served, stored, retryVars, adaptiveVars>>

\* the client's methods, called by the goroutines threads, and what happens
\* inside them
ClientOps(threads) ==
    \/ \E t \in threads, call \in Calls : Call(t, call) /\ ClientObserved
    \/ \E t \in threads : Cancel(t) /\ ClientObserved
    \/ \E t \in threads : ClientCacheGet(t) /\ ClientObserved
    \/ \E t \in threads : ClientCacheStats(t) /\ ClientObserved
    \/ \E t \in threads : ClientCacheHit(t) /\ ClientObserved
    \/ \E t \in threads : ClientCacheMiss(t) /\ ClientObserved
    \/ \E t \in threads : ClientWait(t) /\ ClientObserved
    \/ \E t \in threads : ClientWaiting(t) /\ ClientObserved
    \/ \E t \in threads : ClientTransport(t) /\ ClientObserved
    \/ \E t \in threads : ClientOnSuccess(t) /\ ClientObserved
    \/ \E t \in threads : ClientCacheSet(t) /\ ClientObserved
    \/ \E t \in threads : ClientOnFailure(t) /\ ClientObserved
    \/ \E t \in threads : ClientBackoff(t) /\ ClientObserved
    \/ \E t \in threads : ClientSleepElapsed(t) /\ ClientObserved
    \/ \E t \in threads : ClientSleepCancelled(t) /\ ClientObserved
    \/ \E t \in threads : ClientFailed(t) /\ ClientObserved
    \/ \E t \in threads : ClientInvalidate(t) /\ ClientObserved
    \/ ClientTick /\ ClientObserved

\* NewEnhancedClient: a retry policy with MaxRetries = 0 is replaced by the
\* default one
NewEnhancedClient_RetryConfig(rc) == IF rc.MaxRetries = 0 THEN DefaultRetryConfig ELSE rc

\* the retry policies the client is configured with: no retry budget at all
\* (negative), none set (zero), or one retry; no delay, or the default one
ClientRetryConfigs ==
    {[DefaultRetryConfig EXCEPT !.MaxRetries = r, !.InitialDelay = i] :
        r \in {0 - 1, 0, 1}, i \in 0..1}

\* the client's configurations: cache and metrics both on, or both off
ClientConfigs ==
    {[EnableCache |-> b, EnableMetrics |-> b, ItemTTL |-> ttl] :
        b \in BOOLEAN, ttl \in 1..MaxTTL}

ClientInit ==
    /\ config = NewRateLimiter([Burst |-> 1, FailureThreshold |-> 1,
                                RecoveryTimeout |-> 1, HalfOpenMaxCalls |-> 1])
    /\ LimiterStart
    /\ CacheStart(NewCache(1, 1))
    /\ \E rc \in ClientRetryConfigs : RetryStart(NewEnhancedClient_RetryConfig(rc))
    /\ \E cfg \in ClientConfigs : ClientStart(cfg)
    /\ AdaptiveStart(NoAdaptive)

\* one goroutine at a time calls the client
ClientNext == ClientOps({1})
ClientSpec == ClientInit /\ [][ClientNext]_vars

\* goroutine 1 reads the item while goroutine 2 changes it, once, with
\* UpdateItem, DeleteItem or MoveItem; no context is cancelled
ClientRaceInit ==
    /\ config = NewRateLimiter([Burst |-> 1, FailureThreshold |-> 1,
                                RecoveryTimeout |-> 1, HalfOpenMaxCalls |-> 1])
    /\ LimiterStart
    /\ CacheStart(NewCache(1, 1))
    /\ RetryStart(NewEnhancedClient_RetryConfig([DefaultRetryConfig EXCEPT !.MaxRetries = 1,
                                                                          !.InitialDelay = 0]))
    /\ ClientStart([EnableCache |-> TRUE, EnableMetrics |-> TRUE, ItemTTL |-> MaxTTL])
    /\ AdaptiveStart(NoAdaptive)

ClientRaceNext ==
    \/ Call(1, "GetItem") /\ ClientObserved
    \/ \E call \in {"UpdateItem", "DeleteItem", "MoveItem"} :
          client[2].calls = 0 /\ Call(2, call) /\ ClientObserved
    \/ \E t \in Threads : ClientCacheGet(t) /\ ClientObserved
    \/ \E t \in Threads : ClientCacheStats(t) /\ ClientObserved
    \/ \E t \in Threads : ClientCacheHit(t) /\ ClientObserved
    \/ \E t \in Threads : ClientCacheMiss(t) /\ ClientObserved
    \/ \E t \in Threads : ClientWait(t) /\ ClientObserved
    \/ \E t \in Threads : ClientWaiting(t) /\ ClientObserved
    \/ \E t \in Threads : ClientTransport(t) /\ ClientObserved
    \/ \E t \in Threads : ClientOnSuccess(t) /\ ClientObserved
    \/ \E t \in Threads : ClientCacheSet(t) /\ ClientObserved
    \/ \E t \in Threads : ClientOnFailure(t) /\ ClientObserved
    \/ \E t \in Threads : ClientBackoff(t) /\ ClientObserved
    \/ \E t \in Threads : ClientSleepElapsed(t) /\ ClientObserved
    \/ \E t \in Threads : ClientFailed(t) /\ ClientObserved
    \/ \E t \in Threads : ClientInvalidate(t) /\ ClientObserved
    \/ ClientTick /\ ClientObserved
ClientRaceSpec == ClientRaceInit /\ [][ClientRaceNext]_vars

\* the steps goroutine t takes by itself inside executeRequest: everything
\* but the call, the cancellation of its context and the clock
ClientRuns(t) ==
    \/ ClientCacheGet(t) /\ ClientObserved
    \/ ClientCacheStats(t) /\ ClientObserved
    \/ ClientCacheHit(t) /\ ClientObserved
    \/ ClientCacheMiss(t) /\ ClientObserved
    \/ ClientWait(t) /\ ClientObserved
    \/ ClientWaiting(t) /\ ClientObserved
    \/ ClientTransport(t) /\ ClientObserved
    \/ ClientOnSuccess(t) /\ ClientObserved
    \/ ClientCacheSet(t) /\ ClientObserved
    \/ ClientOnFailure(t) /\ ClientObserved
    \/ ClientBackoff(t) /\ ClientObserved
    \/ ClientSleepElapsed(t) /\ ClientObserved
    \/ ClientSleepCancelled(t) /\ ClientObserved
    \/ ClientFailed(t) /\ ClientObserved
    \/ ClientInvalidate(t) /\ ClientObserved

\* the goroutine inside executeRequest is scheduled, the transport call comes
\* back, and the timer of the backoff fires
ClientFairSpec == ClientSpec /\ WF_vars(ClientRuns(1))

\* =================================================== AdaptiveRateLimiter
\* AdaptiveRateLimiter (package ratelimit): a RateLimiter whose rate Adjust
\* moves between minRPS and maxRPS.  Time is counted in seconds.  The rates
\* are float64 in the code and exact fractions num/den here: the products
\* with 1.1 and 0.9 are exact, where the code rounds them to the nearest
\* float64.

\* NewAdaptiveRateLimiter: adjustPeriod: 30 * time.Second
AdjustPeriod == 30

RECURSIVE GCD(_, _)
GCD(a, b) == IF b = 0 THEN a ELSE GCD(b, a % b)

\* the fraction n/d in lowest terms
Rat(n, d) == [num |-> n \div GCD(n, d), den |-> d \div GCD(n, d)]

\* float64(n)
Whole(n) == Rat(n, 1)

\* r * n/d
Scale(r, n, d) == Rat(r.num * n, r.den * d)

\* r < s
Less(r, s) == r.num * s.den < s.num * r.den

min(a, b) == IF Less(a, b) THEN a ELSE b

max(a, b) == IF Less(b, a) THEN a ELSE b

\* NewAdaptiveRateLimiter(baseRPS, minRPS, maxRPS)
NewAdaptiveRateLimiter(baseRPS, minRPS, maxRPS) ==
    [baseRPS    |-> baseRPS,
     currentRPS |-> Whole(baseRPS),
     minRPS     |-> minRPS,
     maxRPS     |-> maxRPS,
     limit      |-> Whole(baseRPS),
     lastAdjust |-> 0]

\* Adjust: successRate > 0.95
HighSuccessRate(m) == m.AllowedRequests * 100 > 95 * m.TotalRequests

\* Adjust: successRate < 0.8
LowSuccessRate(m) == m.AllowedRequests * 10 < 8 * m.TotalRequests

\* Variant: the rate rises on a high success rate whatever the breaker says
AdjustedRPS_IgnoresBreaker(a, m, state) ==
    IF HighSuccessRate(m) THEN min(Scale(a.currentRPS, 11, 10), Whole(a.maxRPS))
    ELSE IF LowSuccessRate(m) \/ state # StateClosed
         THEN max(Scale(a.currentRPS, 9, 10), Whole(a.minRPS))
         ELSE a.currentRPS

\* Adjust: the rate after an adjustment, from the limiter a, the metrics m
\* and the breaker's state
AdjustedRPS(a, m, state) ==
    IF HighSuccessRate(m) /\ state = StateClosed
    THEN min(Scale(a.currentRPS, 11, 10), Whole(a.maxRPS))
    ELSE IF LowSuccessRate(m) \/ state # StateClosed
         THEN max(Scale(a.currentRPS, 9, 10), Whole(a.minRPS))
         ELSE a.currentRPS

\* Adjust: too early, or no request since the last reset
AdjustSkips(a, m, n) == n - a.lastAdjust < AdjustPeriod \/ m.TotalRequests = 0

\* AdaptiveRateLimiter.Adjust, under a.mu
Adjust(t) ==
    /\ pc[t] = "idle"
    /\ LET m == GetMetrics
           rps == AdjustedRPS(adaptive, m, cb.state)
       IN /\ aev' = AdaptiveEvent("Adjust", adaptive, m, cb.state, now)
          /\ IF AdjustSkips(adaptive, m, now)
             THEN UNCHANGED <<adaptive, metrics>>
             ELSE /\ adaptive' = [adaptive EXCEPT !.currentRPS = rps, !.limit = rps,
                                                  !.lastAdjust = now]
                  /\ metrics' = [TotalRequests |-> 0, AllowedRequests |-> 0,
                                 RejectedRequests |-> 0, CircuitBreakerTrips |-> 0,
                                 LastReset |-> now]
    /\ ev' = NoEvent
    /\ UNCHANGED <<config, now, cb, tokens, pc, op, cnow>>

\* the embedded RateLimiter's Allow, first critical section
AdaptiveAllow(t) ==
    /\ pc[t] = "idle"
    /\ metrics.TotalRequests < MaxAdaptiveRequests
    /\ metrics' = [metrics EXCEPT !.TotalRequests = metrics.TotalRequests + 1]
    /\ pc' = [pc EXCEPT ![t] = "can_execute"]
    /\ op' = [op EXCEPT ![t] = "Allow"]
    /\ ev' = NoEvent
    /\ UNCHANGED <<config, now, cb, tokens, cnow>>

\* an adjustment period passes: the bucket is full again
Elapse ==
    /\ now + AdjustPeriod <= MaxAdaptiveTime
    /\ now' = now + AdjustPeriod
    /\ tokens' = config.Burst
    /\ ev' = NoEvent
    /\ UNCHANGED <<config, cb, metrics, pc, op, cnow>>

\* a step of the embedded RateLimiter
AdaptiveLimiter == UNCHANGED adaptive /\ aev' = NoAdaptiveEvent

AdaptiveObserved ==
    UNCHANGED <<breakerHistory, limiterHistory, cacheVars, cacheHistory, retryVars,
                clientVars, clientHistory>>

AdaptiveNext ==
    \/ AdaptiveAllow(1) /\ AdaptiveLimiter /\ AdaptiveObserved
    \/ pc[1] = "can_execute" /\ CanExecute(1) /\ AdaptiveLimiter /\ AdaptiveObserved
    \/ CanExecuteLock(1) /\ AdaptiveLimiter /\ AdaptiveObserved
    \/ CanExecuteReread(1) /\ AdaptiveLimiter /\ AdaptiveObserved
    \/ LimiterAllow(1) /\ AdaptiveLimiter /\ AdaptiveObserved
    \/ RejectedByBreaker(1) /\ AdaptiveLimiter /\ AdaptiveObserved
    \/ RejectedByLimiter(1) /\ AdaptiveLimiter /\ AdaptiveObserved
    \/ Allowed(1) /\ AdaptiveLimiter /\ AdaptiveObserved
    \/ OnSuccess(1) /\ AdaptiveLimiter /\ AdaptiveObserved
    \/ OnFailure(1) /\ AdaptiveLimiter /\ AdaptiveObserved
    \/ Tick(MaxTime) /\ AdaptiveLimiter /\ AdaptiveObserved
    \/ Elapse /\ AdaptiveLimiter /\ AdaptiveObserved
    \/ Adjust(1) /\ AdaptiveObserved

\* the rates the limiter is built with: positive, minRPS <= maxRPS, baseRPS
\* anywhere
AdaptiveConfigs ==
    {<<b, lo, hi>> \in {1, 10, MaxRPS} \X {1, 10} \X {10, 11, 50} : lo <= hi}

AdaptiveInit ==
    /\ config = NewRateLimiter([Burst |-> 2, FailureThreshold |-> 1,
                                RecoveryTimeout |-> 1, HalfOpenMaxCalls |-> 1])
    /\ LimiterStart
    /\ CacheStart(NewCache(1, 1))
    /\ RetryStart(DefaultRetryConfig)
    /\ ClientStart(NoClient)
    /\ \E c \in AdaptiveConfigs : AdaptiveStart(NewAdaptiveRateLimiter(c[1], c[2], c[3]))

AdaptiveSpec == AdaptiveInit /\ [][AdaptiveNext]_vars

\* ================================================================ claims
\* a CanExecute call of goroutine t returns in this step
CanExecuteReturnsIn(t) ==
    /\ ev'.op = "CanExecute"
    /\ pc[t] \in {"idle", "can_execute", "ce_reread"}
    /\ (pc'[t] # pc[t] \/ pc[t] = "idle")
    /\ \A u \in Threads \ {t} : pc'[u] = pc[u]

\* no Allow or Wait call is in flight
NoAdmissionInFlight == \A t \in Threads : op[t] \notin {"Allow", "Wait"}

\* ---------------------------------------------------------------- C1
\* C1: a breaker that starts Closed leaves Closed only for Open, and exactly
\* in the OnFailure step that makes FailureThreshold failures since the last
\* OnSuccess (or since the start); an OnSuccess while Closed sets failureCount
\* to 0; while Closed, failureCount is the number of failures since the last
\* OnSuccess and is below the threshold.
C1_TripsExactlyAtThreshold ==
    [][ /\ cb.state = StateClosed =>
              /\ cb'.state \in {StateClosed, StateOpen}
              /\ cb'.state = StateOpen <=>
                    (ev'.op = "OnFailure" /\ consecFailures' = config.FailureThreshold)
              /\ ev'.op = "OnSuccess" => cb'.failureCount = 0 /\ cb'.state = StateClosed
        /\ cb'.state = StateClosed =>
              /\ cb'.failureCount = consecFailures'
              /\ consecFailures' < config.FailureThreshold
      ]_vars

\* C1 witness: the breaker has just tripped at its second consecutive failure
C1_Witness ==
    /\ ev.op = "OnFailure"
    /\ pre = StateClosed
    /\ cb.state = StateOpen
    /\ config.FailureThreshold = 2
    /\ consecFailures = 2

\* ---------------------------------------------------------------- C2
\* C2: while Open, the only step that changes the state is the write-locked
\* section of a CanExecute whose now is more than RecoveryTimeout after
\* lastFailureTime; it sets HalfOpen and successCount = 0, and that call
\* returns true.  A CanExecute made while Open before the timeout has elapsed
\* returns false and leaves the breaker Open; State(), OnSuccess and the clock
\* leave it Open.
C2_OnlyRecoveredCanExecuteLeavesOpen ==
    [][ /\ cb.state = StateOpen /\ cb'.state # StateOpen =>
              /\ \E t \in Threads : /\ pc[t] = "ce_lock"
                                    /\ pc'[t] = "ce_reread"
                                    /\ Recovered(cb, cnow[t])
              /\ cb'.state = StateHalfOpen
              /\ cb'.successCount = 0
        /\ \A t \in Threads :
              (CanExecuteReturnsIn(t) /\ pc[t] = "ce_reread" /\ fired[t]) => ev'.ret = TRUE
        /\ \A t \in Threads :
              (CanExecuteReturnsIn(t) /\ pc[t] # "ce_reread"
                 /\ cb.state = StateOpen /\ ~Recovered(cb, now)) =>
                    (ev'.ret = FALSE /\ cb' = cb)
        /\ (cb.state = StateOpen /\ (ev'.op \in {"State", "OnSuccess"} \/ now' # now)) =>
              cb'.state = StateOpen
      ]_vars

\* ---------------------------------------------------------------- C3
\* C3: in HalfOpen successCount stays below HalfOpenMaxCalls; the OnSuccess
\* that brings it to HalfOpenMaxCalls closes the breaker with failureCount and
\* successCount both 0, and every earlier OnSuccess leaves it HalfOpen with
\* successCount one higher.
C3_HalfOpenClosesAtMaxCalls ==
    [][ /\ cb'.state = StateHalfOpen => cb'.successCount < config.HalfOpenMaxCalls
        /\ (cb.state = StateHalfOpen /\ ev'.op = "OnSuccess") =>
              IF cb.successCount + 1 = config.HalfOpenMaxCalls
              THEN cb'.state = StateClosed /\ cb'.failureCount = 0 /\ cb'.successCount = 0
              ELSE cb'.state = StateHalfOpen /\ cb'.successCount = cb.successCount + 1
      ]_vars

\* C3 witness: the second trial success has just closed a breaker with HalfOpenMaxCalls = 2
C3_Witness ==
    /\ ev.op = "OnSuccess"
    /\ pre = StateHalfOpen
    /\ cb.state = StateClosed
    /\ config.HalfOpenMaxCalls = 2

\* ---------------------------------------------------------------- C4
\* C4: an OnFailure while HalfOpen opens the breaker, sets successCount to 0
\* and lastFailureTime to now; and as long as no more than RecoveryTimeout has
\* passed since lastFailureTime an Open breaker stays Open and every
\* CanExecute that returns returns false.
C4_HalfOpenFailureReopens ==
    [][ /\ (cb.state = StateHalfOpen /\ ev'.op = "OnFailure") =>
              /\ cb'.state = StateOpen
              /\ cb'.successCount = 0
              /\ cb'.lastFailureTime = now
        /\ (cb.state = StateOpen /\ ~Recovered(cb, now)) =>
              /\ cb'.state = StateOpen
              /\ ev'.op = "CanExecute" => ev'.ret = FALSE
      ]_vars

\* C4 witness: CanExecute has just been refused, one tick after a failure in
\* HalfOpen reopened the breaker
C4_Witness ==
    /\ ev.op = "CanExecute"
    /\ ev.ret = FALSE
    /\ cb.state = StateOpen
    /\ openedFrom = StateHalfOpen
    /\ now = cb.lastFailureTime + 1

\* ---------------------------------------------------------------- C5
\* C5: while HalfOpen, at most HalfOpenMaxCalls calls of CanExecute have been
\* answered true since the breaker entered HalfOpen.
C5_HalfOpenAdmissionsBounded ==
    cb.state = StateHalfOpen => halfOpenAdmitted <= config.HalfOpenMaxCalls

\* ---------------------------------------------------------------- C6
\* C6: under every interleaving, a CanExecute that returns returns true iff
\* the breaker is then Closed, or HalfOpen with successCount under the cap, or
\* the call itself made the Open -> HalfOpen transition; so it never returns
\* false with the breaker Closed.
C6_CanExecuteAnswerMatchesState ==
    [][ \A t \in Threads : CanExecuteReturnsIn(t) =>
            /\ ev'.ret = TRUE <=>
                  \/ cb'.state = StateClosed
                  \/ cb'.state = StateHalfOpen /\ HalfOpenAnswer(cb')
                  \/ pc[t] = "ce_reread" /\ fired[t]
            /\ ev'.ret = FALSE => cb'.state # StateClosed
      ]_vars

\* ---------------------------------------------------------------- C7
\* C7: when CanExecute answers false inside Allow or Wait, the call goes
\* straight to its rejection, which returns the circuit-breaker error without
\* waiting for anything; no step of the call other than the limiter's takes a
\* token, and the refused call never reaches the limiter.
C7_BreakerDenialTakesNoToken ==
    /\ [](\A t \in Threads : pc[t] = "cb_rejected" => ENABLED RejectedByBreaker(t))
    /\ [][ \A t \in Threads :
            /\ (op[t] \in {"Allow", "Wait"} /\ CanExecuteReturnsIn(t) /\ ev'.ret = FALSE) =>
                  (pc'[t] = "cb_rejected" /\ tokens' = tokens)
            /\ (pc[t] = "cb_rejected" /\ pc'[t] # pc[t]) =>
                  /\ pc'[t] = "idle"
                  /\ ev' = Event(op[t], ErrCircuitBreaker)
                  /\ tokens' = tokens
            /\ (pc'[t] # pc[t] /\ pc[t] # "limiter") => tokens' = tokens
        ]_vars

\* C7 witness: Wait has just returned the circuit-breaker error on an empty bucket
C7_Witness ==
    /\ ev = Event("Wait", ErrCircuitBreaker)
    /\ cb.state = StateOpen
    /\ tokens = 0

\* ---------------------------------------------------------------- C8
\* C8: from a full bucket, with the breaker Closed and no time elapsing, the
\* Allow calls made one after another return nil as long as fewer than Burst
\* of them have, and "rate limit exceeded" from then on.
C8_BurstThenRateLimit ==
    [][ /\ streak' <= config.Burst
        /\ (ev'.op = "Allow" /\ streak # NoStreak /\ streak' # NoStreak) =>
              IF streak < config.Burst
              THEN ev'.ret = ErrNil /\ streak' = streak + 1
              ELSE ev'.ret = ErrRateLimit
      ]_vars

\* C8 witness: with Burst = 2, the third Allow in a row has just been refused
C8_Witness ==
    /\ ev = Event("Allow", ErrRateLimit)
    /\ config.Burst = 2
    /\ streak = 2
    /\ metrics.AllowedRequests = 2

\* ---------------------------------------------------------------- C9
\* C9: under every interleaving of Allow, Wait and ResetMetrics,
\* AllowedRequests + RejectedRequests <= TotalRequests, with equality whenever
\* no Allow or Wait is in flight.
C9_MetricsAddUp ==
    /\ metrics.AllowedRequests + metrics.RejectedRequests <= metrics.TotalRequests
    /\ NoAdmissionInFlight =>
          metrics.AllowedRequests + metrics.RejectedRequests = metrics.TotalRequests

\* ---------------------------------------------------------------- C10
\* C10: the CircuitBreakerTrips that GetMetrics returns is the number of times
\* the breaker entered Open since construction or the last ResetMetrics.
C10_TripsCounted ==
    GetMetrics.CircuitBreakerTrips = trips

\* ---------------------------------------------------------------- C11
\* C11: Get(key) returns (v, true) iff an entry is stored under key and now
\* is not after its ExpiresAt, and v is then the value of the most recent
\* Set / SetWithTTL of key, otherwise it returns (nil, false); a Set stores
\* the entry with ExpiresAt = now + ttl, a Get right after it returns the
\* value set, and the passage of time changes no entry.
C11_GetReturnsLiveEntry ==
    [][ /\ cev'.op = "Get" =>
              LET k == cev'.key
                  live == Has(cache, k) /\ now <= cache.items[k].ExpiresAt
              IN  /\ cev'.ret.found <=> live
                  /\ cev'.ret.value = IF live THEN lastSet[k] ELSE NoValue
                  /\ (cev.op = "Set" /\ cev.key = k) =>
                        (cev'.ret.found /\ cev'.ret.value = cev.ret.value)
        /\ cev'.op = "Set" =>
              /\ Has(cache', cev'.key)
              /\ cache'.items[cev'.key].Value = cev'.ret.value
              /\ cache'.items[cev'.key].ExpiresAt = now + cev'.ret.ttl
        /\ now' # now => cache' = cache
      ]_vars

\* a Get at the entry's deadline returns the second value set for the key
C11_Witness ==
    /\ cev.op = "Get"
    /\ cev.key = "a"
    /\ cev.ret = [value |-> "v2", found |-> TRUE]
    /\ now = cache.items["a"].ExpiresAt
    /\ now > 0

\* ---------------------------------------------------------------- C12
\* C12: the cache never holds more than maxSize entries.
C12_SizeWithinMaxSize ==
    Size(cache) <= cache.maxSize

\* ---------------------------------------------------------------- C13
\* C13: a Set of a new key into a full cache evicts exactly one entry, and an
\* entry a Set evicts is one whose AccessedAt is the oldest.
C13_EvictsOldest ==
    [][ cev'.op = "Set" =>
          /\ (Size(cache) >= cache.maxSize /\ ~Has(cache, cev'.key)) =>
                cache'.stats.Evictions = cache.stats.Evictions + 1
          /\ cache'.stats.Evictions # cache.stats.Evictions =>
                \E e \in DOMAIN cache.items :
                    /\ DOMAIN cache'.items = ((DOMAIN cache.items) \ {e}) \cup {cev'.key}
                    /\ \A j \in DOMAIN cache.items :
                          cache.items[e].AccessedAt <= cache.items[j].AccessedAt
      ]_vars

\* ---------------------------------------------------------------- C14
\* C14: a Set evicts only when the cache is full and the key is new; a Set of
\* a key already stored removes no entry, leaves the other entries as they
\* are and leaves the eviction counter alone.
C14_OverwriteEvictsNothing ==
    [][ cev'.op = "Set" =>
          /\ cache'.stats.Evictions # cache.stats.Evictions =>
                (Size(cache) >= cache.maxSize /\ ~Has(cache, cev'.key))
          /\ Has(cache, cev'.key) =>
                /\ DOMAIN cache'.items = DOMAIN cache.items
                /\ \A j \in (DOMAIN cache.items) \ {cev'.key} :
                      cache'.items[j] = cache.items[j]
                /\ cache'.stats = cache.stats
      ]_vars

\* ---------------------------------------------------------------- C15
\* C15: a Get that overlaps no other Get changes, between its call and its
\* return, exactly this: on a hit Hits and the entry's HitCount go up by one
\* and its AccessedAt becomes the time of the call; on an absent key Misses
\* goes up by one; on a stale entry Misses and Expirations go up by one each.
\* With no Get in progress Hits + Misses is the number of Get calls made, and
\* HitRate is Hits * 100 / (Hits + Misses), or 0 when both are 0.
C15_GetCountsOnce ==
    /\ [](LET s == Stats(cache)
              r == HitRate(s)
          IN  /\ (NoReader /\ ~raced) => s.Hits + s.Misses = getCalls
              /\ IF s.Hits + s.Misses = 0 THEN r.num = 0
                 ELSE r.num * (s.Hits + s.Misses) = s.Hits * 100 * r.den)
    /\ [][ (cev'.op = "GetReturns" /\ ~raced') =>
             LET k == cev'.key
             IN  CASE snap.kind = "hit" ->
                        /\ cache'.stats = [snap.stats EXCEPT !.Hits = @ + 1]
                        /\ cache'.items = [snap.items EXCEPT ![k].HitCount = @ + 1,
                                                             ![k].AccessedAt = snap.at]
                   [] snap.kind = "absent" ->
                        /\ cache'.stats = [snap.stats EXCEPT !.Misses = @ + 1]
                        /\ cache'.items = snap.items
                   [] snap.kind = "stale" ->
                        /\ cache'.stats = [snap.stats EXCEPT !.Misses = @ + 1,
                                                            !.Expirations = @ + 1]
                        /\ cache'.items = snap.items
         ]_vars

\* a Get of a stale entry returns after an earlier hit
C15_Witness ==
    /\ cev.op = "GetReturns"
    /\ Has(cache, cev.key)
    /\ IsExpired(cache.items[cev.key], now)
    /\ cache.stats = [Hits |-> 1, Misses |-> 1, Evictions |-> 0, Expirations |-> 1]
    /\ getCalls = 2

\* ---------------------------------------------------------------- C16
\* C16: Clear leaves no entry and leaves Hits, Misses, Evictions and
\* Expirations as they were; a Get on the emptied cache misses.
C16_ClearKeepsStats ==
    [][ /\ cev'.op = "Clear" =>
              /\ Size(cache') = 0
              /\ Stats(cache') = Stats(cache)
        /\ (cev'.op = "Get" /\ cev.op = "Clear") => ~cev'.ret.found
      ]_vars

\* Clear has emptied a cache whose counters were not zero
C16_Witness ==
    /\ cev.op = "Clear"
    /\ Size(cache) = 0
    /\ cache.stats.Hits = 1
    /\ cache.stats.Misses = 1

\* ---------------------------------------------------------------- C17
\* C17 as stated: a run of the sweep removes exactly the entries with
\* ExpiresAt <= now, and adds the number removed to Expirations.
C17_SweepRemovesDue ==
    [][ cev'.op = "cleanup" =>
          LET due == {k \in DOMAIN cache.items : cache.items[k].ExpiresAt <= now}
          IN  /\ cache'.items = Remove(cache.items, due)
              /\ cache'.stats.Expirations = cache.stats.Expirations + Cardinality(due)
      ]_vars

\* C17 amended: a run of the sweep removes exactly the entries with
\* ExpiresAt < now, leaves the others and the other counters as they are, and
\* adds the number removed to Expirations; it runs between any two calls.
C17_SweepRemovesExpired ==
    /\ [](NoReader => ENABLED cleanup)
    /\ [][ cev'.op = "cleanup" =>
             LET past == {k \in DOMAIN cache.items : cache.items[k].ExpiresAt < now}
             IN  /\ cache'.items = Remove(cache.items, past)
                 /\ cache'.stats = [cache.stats EXCEPT !.Expirations = @ + Cardinality(past)]
         ]_vars

\* the sweep has removed one entry and kept one that is at its deadline
C17_Witness ==
    /\ cev.op = "cleanup"
    /\ cache.stats.Expirations = 1
    /\ cache.stats.Misses = 0
    /\ \E k \in DOMAIN cache.items : cache.items[k].ExpiresAt = now

\* ---------------------------------------------------------------- C18
\* C18: under every interleaving, once every Get has returned, Hits + Misses
\* is the number of Get calls made and each entry's HitCount is the number
\* of hits served for it.
C18_NoLostUpdate ==
    NoReader =>
        /\ cache.stats.Hits + cache.stats.Misses = getCalls
        /\ \A k \in DOMAIN cache.items : cache.items[k].HitCount = served[k]

\* ---------------------------------------------------------------- C19
\* the kind of the error of the last ShouldRetry call is in the retryable set
KindIsRetryable == GetErrorType(rev.err) \in retryConfig.RetryableErrors

\* C19 (as stated): ShouldRetry(err, attempt) is false if attempt >=
\* maxRetries, false if the error's kind is not in the retryable set, and
\* true in every other case.
C19_RetriesUnlessExhaustedOrKind ==
    rev.op = "ShouldRetry" =>
        /\ rev.attempt >= retryConfig.MaxRetries => rev.ret = FALSE
        /\ ~KindIsRetryable => rev.ret = FALSE
        /\ rev.attempt < retryConfig.MaxRetries /\ KindIsRetryable => rev.ret = TRUE

\* C19 (amended): ShouldRetry(err, attempt) is false if attempt >=
\* maxRetries, false if the error is not flagged retryable (it is not a
\* categorized error, or its retryable flag is off), false if the error's
\* kind is not in the retryable set, and true in every other case.
C19_RetriesFlaggedErrors ==
    rev.op = "ShouldRetry" =>
        /\ rev.attempt >= retryConfig.MaxRetries => rev.ret = FALSE
        /\ ~(rev.err.app /\ rev.err.Retryable) => rev.ret = FALSE
        /\ ~KindIsRetryable => rev.ret = FALSE
        /\ (rev.attempt < retryConfig.MaxRetries /\ rev.err.app /\ rev.err.Retryable
              /\ KindIsRetryable) => rev.ret = TRUE

\* the last retry of the budget is granted for a flagged error of a
\* retryable kind
C19_Witness ==
    /\ rev.op = "ShouldRetry"
    /\ rev.attempt = retryConfig.MaxRetries - 1
    /\ rev.err = NewNetworkError
    /\ KindIsRetryable
    /\ rev.ret = TRUE

\* ---------------------------------------------------------------- C20
RECURSIVE Power(_, _)
Power(b, n) == IF n = 0 THEN 1 ELSE b * Power(b, n - 1)

Minimum(a, b) == IF a <= b THEN a ELSE b

\* C20: CalculateDelay(n) = min(initialDelay * backoffMultiplier^n, maxDelay)
\* for every n >= 0; it never exceeds maxDelay, and it is non-decreasing in n:
\* of two calls, the one with the larger n returns at least as much.
C20_DelayIsCappedBackoff ==
    /\ [](rev.op = "CalculateDelay" =>
            /\ rev.ret = Minimum(retryConfig.InitialDelay
                                   * Power(retryConfig.BackoffFactor, rev.attempt),
                                 retryConfig.MaxDelay)
            /\ rev.ret <= retryConfig.MaxDelay)
    /\ [][ (/\ rev.op = "CalculateDelay"
            /\ rev'.op = "CalculateDelay"
            /\ rev.attempt <= rev'.attempt) => rev.ret <= rev'.ret ]_vars

\* a call of the client has just returned to its caller
ClientReturned == clev.call # "-"

\* ---------------------------------------------------------------- C21
\* C21: a call returns no error only if a transport call of this request was
\* answered 2xx or a fresh cache entry was served; a request none of whose
\* attempts succeeded returns an error, whatever the configuration (a retry
\* budget that is not positive included).
C21_NoSuccessWithoutSuccess ==
    (ClientReturned /\ clev.err = NilError) =>
        (chist[clev.t].got2xx \/ chist[clev.t].served)

\* ---------------------------------------------------------------- C22
\* C22: when the last Wait of a request failed because the circuit breaker
\* denied execution, the error the request returns has the kind
\* CircuitBreakerOpen, not the kind RateLimit.
C22_BreakerDenialIsCircuitBreakerError ==
    (ClientReturned /\ chist[clev.t].denied = ErrCircuitBreaker) =>
        clev.err.Type = ErrorTypeCircuitBreaker

\* ---------------------------------------------------------------- C23
\* C23: when the context is cancelled while the request is blocked in Wait,
\* the request returns a timeout (cancelled) error, not a rate-limit error,
\* and starts no further attempt.
C23_CancelledWaitIsTimeout ==
    (ClientReturned /\ chist[clev.t].cancelledAt = "blocked") =>
        /\ clev.err.Type = ErrorTypeTimeout
        /\ chist[clev.t].after = 0

\* ---------------------------------------------------------------- C24
\* C24: when the context is cancelled while the request sleeps between two
\* attempts, the next step of the request returns a Timeout error: no Wait,
\* transport call, OnSuccess / OnFailure or cache write follows.
C24_CancelledSleepAborts ==
    /\ []((ClientReturned /\ chist[clev.t].cancelledAt = "sleep") =>
             (clev.err.Type = ErrorTypeTimeout /\ chist[clev.t].after = 0))
    /\ [][ \A t \in Threads :
              (client[t].pc = "sleep" /\ client[t].done /\ client'[t] # client[t]) =>
                  /\ client'[t].pc = "idle"
                  /\ clev'.t = t
                  /\ clev'.err = NewTimeoutError
                  /\ UNCHANGED <<cb, metrics, tokens, cache>> ]_vars

C24_Witness ==
    /\ ClientReturned
    /\ chist[clev.t].cancelledAt = "sleep"
    /\ chist[clev.t].transports = 1
    /\ clev.err = NewTimeoutError

\* ---------------------------------------------------------------- C25
\* the cache keys whose entries show the resource a call changes
Relevant(call) == IF call = "CreateItem" THEN {ListKey} ELSE {ItemKey, ListKey}

\* the cache can serve an entry under key
Fresh(key) == Has(cache, key) /\ ~IsExpired(cache.items[key], now)

\* C25: after a mutating call returned success the cache holds no (fresh)
\* entry under the keys relevant to the resource; a mutating call that fails
\* leaves the cache as it was.
C25_MutationInvalidates ==
    (ClientReturned /\ Mutates(clev.call)) =>
        IF clev.err = NilError
        THEN \A k \in Relevant(clev.call) : ~Fresh(k)
        ELSE cache.items = chist[clev.t].items

\* ---------------------------------------------------------------- C28
\* the kind the claim gives to a transport outcome, unclassified is the kind
\* of the outcomes the mapping does not name
KindOf(resp, unclassified) ==
    CASE resp.failed -> ErrorTypeNetwork
      [] resp.status = 400 -> ErrorTypeValidation
      [] resp.status = 401 -> ErrorTypeAuthentication
      [] resp.status = 403 -> ErrorTypeAuthorization
      [] resp.status = 404 -> ErrorTypeNotFound
      [] resp.status = 409 -> ErrorTypeConflict
      [] resp.status = 429 -> ErrorTypeRateLimit
      [] resp.status = 408 -> ErrorTypeTimeout
      [] resp.status >= 500 -> ErrorTypeAPI
      [] OTHER -> unclassified

\* a transport call of goroutine t has failed and is classified
Classified(t) == client[t].pc = "on_failure"

\* C28 (as stated): 400 is Validation, 401 Authentication, 403 Authorization,
\* 404 NotFound, 409 Conflict, 429 RateLimit, 408 Timeout, 500 and above
\* UpstreamAPI with severity High, a transport failure Network, and every
\* other outcome that is not 2xx Internal.
C28_ClassifiedOthersInternal ==
    \A t \in Threads :
        Classified(t) =>
            /\ client[t].lastErr.Type = KindOf(client[t].resp, ErrorTypeInternal)
            /\ (~client[t].resp.failed /\ client[t].resp.status >= 500) =>
                    client[t].lastErr.Severity = SeverityHigh

\* C28 (amended): the same mapping, every other outcome that is not 2xx being
\* UpstreamAPI as well (with a severity below High).
C28_ClassifiedOthersAPI ==
    \A t \in Threads :
        Classified(t) =>
            /\ client[t].lastErr.Type = KindOf(client[t].resp, ErrorTypeAPI)
            /\ (client[t].lastErr.Type = ErrorTypeAPI) =>
                    (client[t].lastErr.Severity = SeverityHigh <=> client[t].resp.status >= 500)

C28_Witness ==
    /\ Classified(1)
    /\ client[1].resp = Response(418)
    /\ client[1].lastErr = NewAPIError(418)

\* ---------------------------------------------------------------- C29
\* C29: a GET served from a fresh cache entry returns success without a Wait
\* and without a transport call, and the step that serves it leaves the
\* limiter's metrics, its tokens and the breaker as they are: the metrics and
\* the breaker are those of the moment the call was made.
C29_CacheHitSkipsLimiter ==
    /\ []((ClientReturned /\ chist[clev.t].served) =>
             /\ clev.err = NilError
             /\ chist[clev.t].waits = 0
             /\ chist[clev.t].transports = 0
             /\ metrics = chist[clev.t].metrics
             /\ cb = chist[clev.t].cb)
    /\ [][ \A t \in Threads :
              (client[t].pc = "cache_got" /\ client[t].found /\ client'[t] # client[t]) =>
                  UNCHANGED <<cb, metrics, tokens>> ]_vars

C29_Witness ==
    /\ ClientReturned
    /\ chist[clev.t].served
    /\ clev.call = "GetItem"
    /\ metrics.AllowedRequests = 1

\* ---------------------------------------------------------------- C30
\* C30: the result of a GET served from the cache is the value stored under
\* its key.
C30_CacheHitDeliversStoredValue ==
    (ClientReturned /\ chist[clev.t].served) =>
        /\ Has(cache, clev.key)
        /\ clev.result = cache.items[clev.key].Value

\* the adaptive limiter's rate lies between its bounds
WithinBounds(a) ==
    /\ ~Less(a.currentRPS, Whole(a.minRPS))
    /\ ~Less(Whole(a.maxRPS), a.currentRPS)

\* C26: for every limiter NewAdaptiveRateLimiter(baseRPS, minRPS, maxRPS)
\* builds and every sequence of operations, minRPS <= currentRPS <= maxRPS in
\* every reachable state, and only Adjust changes currentRPS.
C26_CurrentRPSClamped ==
    /\ [](WithinBounds(adaptive))
    /\ [][adaptive'.currentRPS # adaptive.currentRPS => aev'.op = "Adjust"]_vars

\* the metrics ResetMetrics leaves at time n
ResetAt(n) ==
    [TotalRequests |-> 0, AllowedRequests |-> 0, RejectedRequests |-> 0,
     CircuitBreakerTrips |-> 0, LastReset |-> n]

InLoop(t) ==
    client[t].pc \in {"wait", "waiting", "http", "on_success", "on_failure", "backoff", "sleep"}

\* goroutine t is calling Wait
InWait(t) == client[t].pc \in {"wait", "waiting"}

\* C31: executeRequest makes at most maxRetries + 1 attempts, one after the
\* other; it returns, provided every Wait it calls returns; and when the
\* attempts are exhausted it returns the classified error of the last one.
C31_AttemptsBoundedAndLastErrorReturned ==
    /\ [](\A t \in Threads :
            /\ chist[t].waits <= (IF retryConfig.MaxRetries < 0 THEN 0
                                  ELSE retryConfig.MaxRetries + 1)
            /\ chist[t].transports <= chist[t].waits
            /\ InLoop(t) => chist[t].waits = client[t].attempt
                                 + (IF client[t].pc = "wait" THEN 0 ELSE 1))
    /\ [][\A t \in Threads :
            client[t].pc = "failed" /\ client'[t].pc = "idle" /\ chist[t].waits > 0 =>
                clev'.err = chist[t].last /\ clev'.err # NilError]_vars
    /\ (<>[]InWait(1) \/ (client[1].pc # "idle" ~> client[1].pc = "idle"))

\* both attempts of a request with one retry have failed at the transport,
\* and the request has returned the error of the second
C31_Witness ==
    /\ clev.call # "-"
    /\ retryConfig.MaxRetries = 1
    /\ chist[1].transports = 2
    /\ clev.err = NewTimeoutError

\* ---------------------------------------------------------------- C32
\* C32: a failed attempt with attempt < maxRetries whose classified error is
\* flagged retryable (the 5xx errors NewAPIError builds among them) is
\* followed by another attempt; an error goes back to the caller only when
\* the retry budget is spent or the error is not flagged retryable.
C32_RetryableErrorsRetried ==
    [][\A t \in Threads :
        client[t].pc = "on_failure" /\ client'[t].pc # "on_failure"
        /\ client[t].attempt < retryConfig.MaxRetries
        /\ client[t].lastErr.Retryable
        => client'[t].pc \in {"backoff", "sleep", "wait"}]_vars

\* ---------------------------------------------------------------- C33
\* C33: a transport call that succeeds is followed by exactly one OnSuccess,
\* and one that fails, whatever the kind of its error, by exactly one
\* OnFailure, before the next attempt starts or executeRequest returns.
C33_EveryTransportCallFeedsBreaker ==
    [][\A t \in Threads :
        LET c == client[t]
            d == client'[t]
        IN  /\ c.pc = "http" /\ d.pc # "http" =>
                    /\ d.pc = (IF ~d.resp.failed /\ d.resp.status \in 200..299
                               THEN "on_success" ELSE "on_failure")
                    /\ cb' = cb
            /\ c.pc = "on_success" /\ d.pc # "on_success" =>
                    ev'.op = "OnSuccess" /\ cb' = CircuitBreaker_OnSuccess(cb)
            /\ c.pc = "on_failure" /\ d.pc # "on_failure" =>
                    ev'.op = "OnFailure" /\ cb' = CircuitBreaker_OnFailure(cb, now)
            /\ c.pc = d.pc /\ c.pc \in {"on_success", "on_failure"} => cb' = cb
            /\ d.pc \in {"wait", "idle"} /\ c.pc # d.pc => c.pc # "http"]_vars
    /\ [][cb' # cb =>
            \E t \in Threads :
                /\ client[t].pc \in {"on_success", "on_failure", "waiting"}
                /\ client[t].pc = "waiting" => cb.state = StateOpen /\ cb'.state = StateHalfOpen]_vars

\* a call answered 404 has been reported to the limiter, and has opened the
\* breaker
C33_Witness ==
    /\ ev.op = "OnFailure"
    /\ chist[1].last = NewNotFoundError
    /\ chist[1].transports = 1
    /\ cb.state = StateOpen

\* ---------------------------------------------------------------- C34
\* C34: between two consecutive attempts of a request executeRequest sleeps
\* CalculateDelay(attempt) for the attempt that just failed, whatever the
\* attempt's outcome was, a failed admission by Wait included; it does not
\* sleep before the first attempt or after the last one.
C34_BackoffBetweenAttempts ==
    [][\A t \in Threads :
        LET c == client[t]
            d == client'[t]
        IN  /\ d.attempt = c.attempt + 1 /\ d.pc = "wait" => c.pc \in {"backoff", "sleep"}
            /\ d.pc \in {"backoff", "sleep"} /\ c.pc # d.pc =>
                    d.attempt < retryConfig.MaxRetries /\ d.lastErr # NilError]_vars

\* ---------------------------------------------------------------- C35
\* C35: every OnFailure, in any state, sets lastFailureTime = now; an
\* OnFailure on an Open breaker leaves it Open and restarts the recovery
\* timer, so that the breaker goes from Open to HalfOpen only when more than
\* RecoveryTimeout has passed since the most recent failure.
C35_EveryFailureRestartsTimer ==
    [][ /\ ev'.op = "OnFailure" =>
              /\ cb'.lastFailureTime = now
              /\ cb.state = StateOpen => cb'.state = StateOpen
        /\ (cb.state = StateOpen /\ cb'.state = StateHalfOpen) =>
              now - cb.lastFailureTime > config.RecoveryTimeout
        /\ cb'.lastFailureTime # cb.lastFailureTime => ev'.op = "OnFailure"
      ]_vars

\* a failure reported to a breaker that was Open already has restarted its
\* timer, after the recovery timeout of the failure that opened it had passed
C35_Witness ==
    /\ ev.op = "OnFailure"
    /\ pre = StateOpen
    /\ cb.state = StateOpen
    /\ cb.lastFailureTime = now
    /\ now > config.RecoveryTimeout
    /\ consecFailures > config.FailureThreshold

C37_OpenBreakerBlocksTransport ==
    /\ [](\A t \in Threads :
            chist[t].shut /\ client[t].pc # "idle" =>
                /\ chist[t].transports = 0
                /\ client[t].pc \notin {"http", "on_success", "on_failure", "cache_set"})
    /\ [][\A t \in Threads :
            /\ client[t].pc = "http" /\ client'[t].pc # "http" =>
                    ~(cb.state = StateOpen /\ ~Recovered(cb, now))
            /\ chist'[t].shut /\ client[t].pc = "waiting" /\ client'[t].pc # "waiting" =>
                    ev'.ret = ErrCircuitBreaker
            /\ chist'[t].shut /\ chist'[t].waits > 0
               /\ client[t].pc # "idle" /\ client'[t].pc = "idle" =>
                    clev'.err # NilError /\ chist'[t].transports = 0]_vars

\* a request made while the breaker was Open has returned an error after two
\* attempts, both refused at admission
C37_Witness ==
    /\ clev.call # "-"
    /\ clev.err # NilError
    /\ chist[1].shut
    /\ chist[1].waits = 2
    /\ chist[1].transports = 0

\* ---------------------------------------------------------------- C38
\* goroutine t's Wait returns an error in this step, and the attempt that
\* called it goes on to the head of the loop
WaitDeniedIn(t) ==
    client[t].pc = "waiting" /\ client'[t].pc \notin {"waiting", "http"}

\* an admission check made by goroutine t on an Open breaker whose recovery
\* timeout has passed moves it to HalfOpen
RecoveryFires(t) ==
    /\ (pc[t] = "can_execute" /\ pc'[t] # pc[t] /\ cb.state = StateOpen /\ Recovered(cb, now))
          => pc'[t] = "ce_lock"
    /\ (pc[t] = "ce_lock" /\ pc'[t] # pc[t]) => cb'.state = StateHalfOpen

\* C38 (as stated): a Wait that is refused, by the breaker or by the token
\* bucket, and the attempt of executeRequest that sees the refusal, leave the
\* breaker's state, failureCount and lastFailureTime as they were; so the
\* first admission check after the recovery timeout, refused traffic or not,
\* moves the breaker from Open to HalfOpen.
C38_DeniedAdmissionLeavesBreaker ==
    [][\A t \in Threads :
        /\ WaitDeniedIn(t) => cb' = chist[t].admit
        /\ RecoveryFires(t)]_vars

\* C38 (amended): a refused Wait and the attempt that sees the refusal leave
\* failureCount and lastFailureTime as they were, and the state as well but
\* for the move from Open to HalfOpen that the Wait's own admission check
\* makes once the recovery timeout has passed; so the first admission check
\* after the recovery timeout, refused traffic or not, moves the breaker from
\* Open to HalfOpen.
C38_DeniedAdmissionCountsNoFailure ==
    [][\A t \in Threads :
        /\ WaitDeniedIn(t) =>
              /\ cb'.failureCount = chist[t].admit.failureCount
              /\ cb'.lastFailureTime = chist[t].admit.lastFailureTime
              /\ \/ cb'.state = chist[t].admit.state
                 \/ /\ chist[t].admit.state = StateOpen
                    /\ cb'.state = StateHalfOpen
                    /\ cb'.successCount = 0
                    /\ Recovered(chist[t].admit, now)
        /\ RecoveryFires(t)]_vars

\* the second Wait of a request found the breaker Open, moved it to HalfOpen
\* and was then refused for its cancelled context
C38_Witness ==
    /\ ev = Event("Wait", ErrContext)
    /\ client[1].pc # "idle"
    /\ chist[1].waits = 2
    /\ chist[1].admit.state = StateOpen
    /\ cb.state = StateHalfOpen
\* C39: the expirations counter counts each expired entry at most once: after any
\* sequence of Set, SetWithTTL, Get and sweep, Expirations is at most the number of
\* stored entries whose TTL has elapsed
ElapsedEntries == Cardinality({i \in DOMAIN stored : now > stored[i]})
C39_ExpirationsCountedOnce ==
    cache.stats.Expirations <= ElapsedEntries

\* C40: under any interleaving of GetItem(id) with a concurrent UpdateItem, DeleteItem
\* or MoveItem of the same id: once the mutating call has returned success, no GetItem
\* called later is answered from a cache entry fetched from the upstream before the
\* mutation (the only mutation there is: such an entry differs from the upstream)
C40_NoStaleEntryAfterMutation ==
    [][\A t \in Threads :
          (/\ client[t].call = "GetItem"
           /\ chist[t].late
           /\ client[t].pc = "cache_got"
           /\ client[t].found
           /\ client'[t].pc = "idle")
          => client[t].cached = upstream]_vars

====
